---- MODULE Spec2Model ----
(***************************************************************************)
(* Authentication and session-security core of Jobtract:                   *)
(*   EnhancedTokenManager, AdvancedRateLimiter (api/security_config.py),   *)
(*   the auth blueprint (api/auth_routes.py) and UserManager               *)
(*   (backend/user_model.py).                                              *)
(*                                                                         *)
(* Time is a discrete clock `now`; one tick stands for a fixed amount of   *)
(* wall-clock time and the configuration knobs are expressed in ticks.     *)
(* A handler runs at one instant of the clock.                             *)
(***************************************************************************)
EXTENDS Integers, Sequences, FiniteSets, TLC

(***************************************************************************)
(* Bounds of the model.                                                    *)
(***************************************************************************)
MaxTime == 3
MaxTokens == 3
MaxRecords == 6
MaxRecords2 == 4
\* SpecCache: timestamps stored and tokens issued.
MaxCacheRecords == 2
MaxCacheTokens == 1
\* SpecLocks: tokens issued and timestamps stored.
MaxLockTokens == 1
MaxLockRecords == 2
\* Entries of the redis event list that are kept in view.
MaxRedisEvents == 3
MaxAppTokens == 2
MaxPeerTokens == 2

(***************************************************************************)
(* SecurityConfig knobs, in clock ticks.                                   *)
(***************************************************************************)
session_timeout == 1
token_expiry == 2
refresh_token_expiry == 3
max_login_attempts == 2
lockout_duration == 2
\* Events the in-memory audit log keeps (1000 in the source).
audit_log_cap == 2

(***************************************************************************)
(* Inputs.                                                                 *)
(***************************************************************************)
UserIds == {"u1", "u2"}
\* The (email, password) pair a client of the demo account types in.
Credentials == {<<"Demo@Jobtract.com", "DemoPass123!">>}
\* Arguments of the rate limiter's own entry points; NoAddress is
\* ip_address=None.
Identifiers == {"demo@jobtract.com"}
Identifiers2 == {"demo@jobtract.com", "test@contractor.com"}
NoAddress == "none"
Addresses == {"1.2.3.4", NoAddress}
NoRole == "none"
\* What is typed into the login form: the demo account's address as a user
\* types it, an address nobody registered, and a string that is no address.
\* Request threads of the server process, and the three components that own
\* a lock.
Threads == {"w1", "w2"}
NoThread == "none"
Components == {"token_manager", "rate_limiter", "auditor"}
\* A thread that is not inside a call.
Idle == [op |-> "idle", blk |-> 0, at |-> "", arg |-> 0, ret |-> ""]
\* Members of EventType the auditor is called with.
EventTypes == {"login_success", "login_failed", "login_blocked"}
\* Addresses typed into registration: a new one in two spellings, and the
\* demo account's in capitals.
NewEmails == {"new@example.com", " New@Example.COM ", "Demo@Jobtract.com"}
\* Passwords typed in: the demo password, the same followed by a NUL
\* character (written <NUL>), another one, and the empty string.
TypedPasswords == {"DemoPass123!", "DemoPass123!<NUL>", "wrong", ""}
\* secrets.token_hex(32) salts; FreshSalt is one never drawn before.
Salts == {"s2", "s4"}
FreshSalt == "fresh"
NoneSalt == "None"
\* Values of SecurityConfig.token_expiry_hours a deployment may set.
AccessTtls == {0, 1}
\* The user dict of POST /auth/test-token.
test_user == [id |-> "test-user-id", email |-> "test@example.com", role |-> "user"]
Emails == {"Demo@Jobtract.com", "nobody@example.com", "not-an-email"}
Passwords == {"DemoPass123!", "wrong"}

VARIABLES
  now,                 \* time.time() / datetime.utcnow(), in ticks
  redis_client,        \* config.use_redis: a redis client is attached
  redis_up,            \* the redis server answers (a call raises when FALSE)
  blacklisted_tokens,  \* EnhancedTokenManager.blacklisted_tokens
  active_sessions,     \* EnhancedTokenManager.active_sessions
  redis_blacklist,     \* redis keys blacklist:{jti}, each with its expiry
  attempts,            \* AdvancedRateLimiter._attempts (timestamps per identifier)
  ip_attempts,         \* AdvancedRateLimiter._ip_attempts
  redis_user_attempts, \* redis lists user_attempts:{identifier}
  redis_ip_attempts,   \* redis lists ip_attempts:{ip}
  users,               \* UserManager._users
  email_index,         \* UserManager._email_index (address -> user id)
  issued,              \* every token the server has signed so far
  audit_log,           \* SecurityAuditor.audit_log (event types, oldest first)
  redis_events,        \* head of the redis list security_events:{date}, newest first
  locks,               \* owner of each component's threading.RLock
  threads,             \* per request thread: the call it is in and where
  app,                 \* api/app.py: the environment and app.config['SECRET_KEY']
  peer,                \* a second server process: its in-process token state
  result               \* the last operation: which one, what it returned

vars == <<now, redis_client, redis_up, blacklisted_tokens, active_sessions,
          redis_blacklist, attempts, ip_attempts, redis_user_attempts,
          redis_ip_attempts, users, email_index, issued, audit_log, redis_events,
          locks,
          threads, app, peer, result>>

tokvars == <<blacklisted_tokens, active_sessions, redis_blacklist, issued>>
rlvars == <<attempts, ip_attempts, redis_user_attempts, redis_ip_attempts>>

(***************************************************************************)
(* Finite maps (python dicts).                                             *)
(***************************************************************************)
Put(f, k, v) == [x \in DOMAIN f \cup {k} |-> IF x = k THEN v ELSE f[x]]
Del(f, k) == [x \in DOMAIN f \ {k} |-> f[x]]
EmptyMap == [x \in {} |-> 0]

Max2(a, b) == IF a >= b THEN a ELSE b
SeqMin(s) == CHOOSE m \in {s[i] : i \in 1..Len(s)} : \A i \in 1..Len(s) : m <= s[i]

(***************************************************************************)
(* Tokens.  `sig` says whether the signature verifies under the server     *)
(* secret; the other fields are the JWT payload.                           *)
(***************************************************************************)
\* A token nobody signed with the server secret: an issued token whose
\* payload was edited (expiry pushed out), so the signature no longer matches.
Tampered(t) == [t EXCEPT !.sig = FALSE, !.exp = t.exp + refresh_token_expiry]

\* What a client can put in an Authorization header or request body: the
\* tokens it was given, and edited copies of its access tokens.
Presentable == issued \cup {Tampered(t) : t \in {x \in issued : x.type = "access"}}

\* secrets.token_urlsafe(): a value not produced before.
FreshJti(n) == Cardinality(issued) + n
FreshSessionId == Cardinality({t.session_id : t \in issued}) + 1


(***************************************************************************)
(* EnhancedTokenManager                                                    *)
(***************************************************************************)

\* Mutant of jwt.decode: a token is still good in the instant of its exp
\* claim (expired only when exp < now).
jwt_decode_expiry_exclusive(t, verify_exp) ==
  IF ~t.sig THEN "invalid"
  ELSE IF verify_exp /\ t.exp < now THEN "expired"
  ELSE "ok"

\* jwt.decode(token, secret, algorithms=[HS256], options={verify_exp}):
\* the signature is checked first, then the exp claim (PyJWT 2.x raises
\* ExpiredSignatureError when exp <= now).
jwt_decode(t, verify_exp) ==
  IF ~t.sig THEN "invalid"
  ELSE IF verify_exp /\ t.exp <= now THEN "expired"
  ELSE "ok"

\* redis EXISTS blacklist:{jti}; keys set with SETEX vanish at their expiry.
redis_exists(jti) ==
  jti \in DOMAIN redis_blacklist /\ now < redis_blacklist[jti].expire_at

\* Time passes; redis drops the keys whose expiry has come.
redis_expire(r, t) == [k \in {x \in DOMAIN r : t < r[x].expire_at} |-> r[k]]

\* Mutant of _is_token_blacklisted: a redis call that raises answers False
\* instead of falling back to the in-memory set.
is_token_blacklisted_no_fallback(t) ==
  IF jwt_decode(t, FALSE) # "ok" THEN FALSE
  ELSE IF t.jti = 0 THEN FALSE
  ELSE IF redis_client THEN redis_up /\ redis_exists(t.jti)
  ELSE t.jti \in blacklisted_tokens

\* Mutant of _is_token_blacklisted: the lookup is skipped, nothing is
\* ever reported as revoked.
is_token_blacklisted_never(t) == FALSE

\* _is_token_blacklisted: any decode error answers False; redis is asked
\* first and its answer is final; the in-memory set is read only when
\* there is no client or the call raised.
is_token_blacklisted(t) ==
  IF jwt_decode(t, FALSE) # "ok" THEN FALSE
  ELSE IF t.jti = 0 THEN FALSE
  ELSE IF redis_client /\ redis_up THEN redis_exists(t.jti)
  ELSE t.jti \in blacklisted_tokens

\* _track_session: (re)writes the entry of session_id.
track_session(sessions, session_id, user_id, t) ==
  Put(sessions, session_id,
      [user_id |-> user_id, created_at |-> now, last_activity |-> now,
       token_hash |-> t.jti])

\* Mutant of _is_session_active: an active session is not touched
\* (the last_activity update is lost).
is_session_active_no_touch(sessions, session_id) ==
  IF session_id = 0 THEN [active |-> FALSE, sessions |-> sessions]
  ELSE IF session_id \notin DOMAIN sessions
       THEN [active |-> FALSE, sessions |-> sessions]
  ELSE IF now - sessions[session_id].last_activity > session_timeout
       THEN [active |-> FALSE, sessions |-> Del(sessions, session_id)]
  ELSE [active |-> TRUE, sessions |-> sessions]

\* _is_session_active: answer and the session map it leaves behind.
is_session_active(sessions, session_id) ==
  IF session_id = 0 THEN [active |-> FALSE, sessions |-> sessions]
  ELSE IF session_id \notin DOMAIN sessions
       THEN [active |-> FALSE, sessions |-> sessions]
  ELSE IF now - sessions[session_id].last_activity > session_timeout
       THEN [active |-> FALSE, sessions |-> Del(sessions, session_id)]
  ELSE [active |-> TRUE,
        sessions |-> [sessions EXCEPT ![session_id].last_activity = now]]

\* verify_token: the returned dict and the session map afterwards.
verify_token(t) ==
  IF is_token_blacklisted(t)
  THEN [valid |-> FALSE, expired |-> FALSE, error |-> "Token has been revoked",
        sessions |-> active_sessions]
  ELSE IF jwt_decode(t, TRUE) = "expired"
  THEN [valid |-> FALSE, expired |-> TRUE, error |-> "Token has expired",
        sessions |-> active_sessions]
  ELSE IF jwt_decode(t, TRUE) = "invalid"
  THEN [valid |-> FALSE, expired |-> FALSE, error |-> "Invalid token",
        sessions |-> active_sessions]
  ELSE LET s == is_session_active(active_sessions, t.session_id) IN
       IF ~s.active
       THEN [valid |-> FALSE, expired |-> FALSE, error |-> "Session has expired",
             sessions |-> s.sessions]
       ELSE [valid |-> TRUE, expired |-> FALSE, error |-> "",
             sessions |-> s.sessions]

\* Mutant of generate_access_token: the _track_session call is left out.
generate_access_token_untracked(sessions, user_id, user, session_id, jti) ==
  LET token == [user_id |-> user_id, email |-> user.email, role |-> user.role,
                session_id |-> session_id, iat |-> now, exp |-> now + token_expiry,
                type |-> "access", jti |-> jti, sig |-> TRUE]
  IN  [token |-> token, sessions |-> sessions]

\* Mutant of generate_access_token: the session_id argument is dropped, so
\* the token gets a session id of its own (the session_id=None default).
generate_access_token_new_session(sessions, user_id, user, session_id, jti) ==
  LET token == [user_id |-> user_id, email |-> user.email, role |-> user.role,
                session_id |-> FreshSessionId, iat |-> now,
                exp |-> now + token_expiry,
                type |-> "access", jti |-> jti, sig |-> TRUE]
  IN  [token |-> token,
       sessions |-> track_session(sessions, FreshSessionId, user_id, token)]

\* generate_access_token(user_data, session_id): the signed token and the
\* session map after _track_session.
generate_access_token(sessions, user_id, user, session_id, jti) ==
  LET token == [user_id |-> user_id, email |-> user.email, role |-> user.role,
                session_id |-> session_id, iat |-> now, exp |-> now + token_expiry,
                type |-> "access", jti |-> jti, sig |-> TRUE]
  IN  [token |-> token,
       sessions |-> track_session(sessions, session_id, user_id, token)]

\* generate_access_token under a configuration whose token_expiry_hours is
\* ttl: only the exp claim (iat + ttl) depends on the setting.
generate_access_token_with_expiry(sessions, user_id, user, session_id, jti, ttl) ==
  LET g == generate_access_token(sessions, user_id, user, session_id, jti)
      token == [g.token EXCEPT !.exp = g.token.iat + ttl]
  IN  [token |-> token,
       sessions |-> track_session(sessions, session_id, user_id, token)]

\* generate_refresh_token(user_data, session_id); its payload has no role
\* claim and no session is tracked.
generate_refresh_token(user_id, user, session_id, jti) ==
  [user_id |-> user_id, email |-> user.email, role |-> NoRole,
   session_id |-> session_id, iat |-> now, exp |-> now + refresh_token_expiry,
   type |-> "refresh", jti |-> jti, sig |-> TRUE]

\* Mutant of blacklist_token: the token is decoded with the expiry check on,
\* so an expired token cannot be revoked.
blacklist_token_requires_unexpired(t) ==
  IF jwt_decode(t, TRUE) # "ok" \/ t.jti = 0
  THEN [ok |-> FALSE, blacklisted |-> blacklisted_tokens, redis |-> redis_blacklist]
  ELSE LET ttl == Max2(0, t.exp - now) IN
       [ok |-> TRUE,
        blacklisted |-> blacklisted_tokens \cup {t.jti},
        redis |-> IF redis_client /\ redis_up /\ ttl > 0
                  THEN Put(redis_blacklist, t.jti, [expire_at |-> now + ttl])
                  ELSE redis_blacklist]

\* blacklist_token: return value, in-memory set and redis keys afterwards.
\* SETEX is attempted only with a client; it raises when redis is down and
\* when ttl = 0 (redis rejects a non-positive expire time); both are logged
\* and swallowed.
blacklist_token(t) ==
  IF jwt_decode(t, FALSE) # "ok" \/ t.jti = 0
  THEN [ok |-> FALSE, blacklisted |-> blacklisted_tokens, redis |-> redis_blacklist]
  ELSE LET ttl == Max2(0, t.exp - now) IN
       [ok |-> TRUE,
        blacklisted |-> blacklisted_tokens \cup {t.jti},
        redis |-> IF redis_client /\ redis_up /\ ttl > 0
                  THEN Put(redis_blacklist, t.jti, [expire_at |-> now + ttl])
                  ELSE redis_blacklist]

(***************************************************************************)
(* AdvancedRateLimiter                                                     *)
(***************************************************************************)
InWindow(ts, t) == SelectSeq(ts, LAMBDA x : t - x < lockout_duration)

\* redis LRANGE key 0 -1 (an absent or expired key is the empty list).
redis_lrange(r, key) ==
  IF key \in DOMAIN r /\ now < r[key].expire_at THEN r[key].ts ELSE <<>>

\* redis LPUSH key value; EXPIRE key lockout_duration.
redis_lpush_expire(r, key) ==
  Put(r, key, [ts |-> <<now>> \o redis_lrange(r, key),
               expire_at |-> now + lockout_duration])

\* Body shared by _check_user_rate_limit and _check_ip_rate_limit; `mem` is
\* the in-memory dict, `red` the redis lists, `limit` the threshold.  The
\* in-memory branch stores the trimmed list back.
check_rate_limit(mem, red, key, limit) ==
  IF redis_client /\ redis_up
  THEN LET a == InWindow(redis_lrange(red, key), now) IN
       [limited |-> Len(a) >= limit, attempts |-> Len(a),
        reset_time |-> IF Len(a) >= limit THEN SeqMin(a) + lockout_duration ELSE 0,
        mem |-> mem]
  ELSE IF key \notin DOMAIN mem
  THEN [limited |-> FALSE, attempts |-> 0, reset_time |-> 0, mem |-> mem]
  ELSE LET a == InWindow(mem[key], now) IN
       [limited |-> Len(a) >= limit, attempts |-> Len(a),
        reset_time |-> IF Len(a) >= limit THEN SeqMin(a) + lockout_duration ELSE 0,
        mem |-> [mem EXCEPT ![key] = a]]

\* Mutant of _check_user_rate_limit: one attempt more is let through.
check_user_rate_limit_one_more(identifier) ==
  check_rate_limit(attempts, redis_user_attempts, identifier, max_login_attempts + 1)

check_user_rate_limit(identifier) ==
  check_rate_limit(attempts, redis_user_attempts, identifier, max_login_attempts)

\* Mutant of _check_ip_rate_limit: the identity threshold is used for the
\* address as well.
check_ip_rate_limit_user_threshold(ip_address) ==
  check_rate_limit(ip_attempts, redis_ip_attempts, ip_address, max_login_attempts)

check_ip_rate_limit(ip_address) ==
  check_rate_limit(ip_attempts, redis_ip_attempts, ip_address, max_login_attempts * 3)

\* is_rate_limited(identifier, ip_address=None)
is_rate_limited(identifier, ip_address) ==
  LET u == check_user_rate_limit(identifier)
      i == IF ip_address # NoAddress
           THEN check_ip_rate_limit(ip_address)
           ELSE [limited |-> FALSE, attempts |-> 0, reset_time |-> 0,
                 mem |-> ip_attempts]
  IN  IF u.limited \/ i.limited
      THEN [limited |-> TRUE,
            reason |-> IF u.limited THEN "user_limit" ELSE "ip_limit",
            attempts |-> u.attempts,
            reset_time |-> Max2(u.reset_time, i.reset_time),
            attempts_mem |-> u.mem, ip_mem |-> i.mem]
      ELSE [limited |-> FALSE, reason |-> "", attempts |-> u.attempts,
            reset_time |-> 0, attempts_mem |-> u.mem, ip_mem |-> i.mem]

\* _record_user_attempt on the given in-memory dict / redis lists.
record_user_attempt(mem, red, identifier, success) ==
  IF redis_client /\ redis_up
  THEN [mem |-> mem,
        red |-> IF success THEN Del(red, identifier)
                ELSE redis_lpush_expire(red, identifier)]
  ELSE LET m == IF identifier \in DOMAIN mem THEN mem ELSE Put(mem, identifier, <<>>) IN
       [mem |-> IF success THEN [m EXCEPT ![identifier] = <<>>]
                ELSE [m EXCEPT ![identifier] = Append(@, now)],
        red |-> red]

\* Mutant of _record_ip_attempt: a success clears the address bucket the way
\* _record_user_attempt clears the identity bucket.
record_ip_attempt_clears_on_success(mem, red, ip_address, success) ==
  IF redis_client /\ redis_up
  THEN [mem |-> mem,
        red |-> IF success THEN Del(red, ip_address)
                ELSE redis_lpush_expire(red, ip_address)]
  ELSE LET m == IF ip_address \in DOMAIN mem THEN mem ELSE Put(mem, ip_address, <<>>) IN
       [mem |-> IF success THEN [m EXCEPT ![ip_address] = <<>>]
                ELSE [m EXCEPT ![ip_address] = Append(@, now)],
        red |-> red]

\* _record_ip_attempt
record_ip_attempt(mem, red, ip_address, success) ==
  IF redis_client /\ redis_up
  THEN [mem |-> mem,
        red |-> IF success THEN red ELSE redis_lpush_expire(red, ip_address)]
  ELSE LET m == IF ip_address \in DOMAIN mem THEN mem ELSE Put(mem, ip_address, <<>>) IN
       [mem |-> IF success THEN m ELSE [m EXCEPT ![ip_address] = Append(@, now)],
        red |-> red]


(***************************************************************************)
(* UserManager                                                             *)
(***************************************************************************)

\* str.lower().strip() on the addresses the model types in.
normalize_email(e) ==
  IF e = "Demo@Jobtract.com" THEN "demo@jobtract.com"
  ELSE IF e = " New@Example.COM " THEN "new@example.com"
  ELSE e

\* The key HMAC derives from the password bytes: a key shorter than the
\* SHA-256 block is padded with zero bytes, so trailing NUL characters of
\* the password make no difference.
hmac_key(password) ==
  IF password = "DemoPass123!<NUL>" THEN "DemoPass123!" ELSE password

\* A stored or computed hash: hex digits of a PBKDF2 output (a function of
\* the HMAC key and the salt and of nothing else), or something else.
HexHash(key, salt) == [kind |-> "hex", key |-> key, salt |-> salt]
NotAHash(kind) == [kind |-> kind, key |-> "", salt |-> ""]

\* EnhancedHasher.hash_password(password, salt)['hash']
hash_password(password, salt) == HexHash(hmac_key(password), salt)

\* secrets.compare_digest(computed, stored) on str arguments: TypeError
\* unless both are str of ASCII characters only.
compare_digest(a, b) ==
  IF b.kind \in {"None", "non_ascii"} THEN "TypeError"
  ELSE IF a = b THEN "True" ELSE "False"

\* EnhancedHasher.verify_password(password, stored_hash, salt): with salt
\* None, hash_password draws a new salt.
hasher_verify_password(password, stored_hash, salt) ==
  compare_digest(hash_password(password, IF salt = NoneSalt THEN FreshSalt ELSE salt),
                 stored_hash)

\* User.verify_password(password): "True", "False", or the exception raised.
user_verify_password(user, password) ==
  IF user.password_hash.kind \in {"None", "empty"} \/ user.password_salt \in {NoneSalt, ""}
  THEN "False"
  ELSE hasher_verify_password(password, user.password_hash, user.password_salt)

\* User.verify_password as the condition of UserManager.authenticate_user.
verify_password(user, password) ==
  user_verify_password(user, password) = "True"

\* str(uuid.uuid4()) for a user created later: an id not in the store and
\* not named by any token or session.
NewUserIds == {"u3", "u4"}
FreshUserIds ==
  NewUserIds \ (DOMAIN users \cup {t.user_id : t \in issued}
                 \cup {active_sessions[k].user_id : k \in DOMAIN active_sessions})
FreshUserId == CHOOSE u \in FreshUserIds : TRUE

\* _create_default_users: the two accounts UserManager() starts with.
default_users ==
  [u \in UserIds |->
     IF u = "u1"
     THEN [email |-> "test@contractor.com", role |-> "admin", is_active |-> TRUE,
           password_salt |-> "s1",
           password_hash |-> hash_password("NewTestPass56", "s1")]
     ELSE [email |-> "demo@jobtract.com", role |-> "user", is_active |-> TRUE,
           password_salt |-> "s2",
           password_hash |-> hash_password("DemoPass123!", "s2")]]

\* get_user_by_email: the user the index names for the normalised address
\* (as a set; empty: None).
get_user_by_email(email) ==
  LET e == normalize_email(email) IN
  IF e \in DOMAIN email_index /\ email_index[e] \in DOMAIN users
  THEN {email_index[e]} ELSE {}

\* UserManager.authenticate_user: the ids that authenticate (empty: None).
authenticate_user(email, password) ==
  {u \in get_user_by_email(email) :
     verify_password(users[u], password) /\ users[u].is_active}

(***************************************************************************)
(* SecurityAuditor and InputValidator                                      *)
(***************************************************************************)

\* Mutant of log_security_event: over the cap, the slice keeps the oldest
\* events ([:cap] instead of [-cap:]).
log_security_event_keeps_oldest(log, event_type) ==
  LET l == Append(log, event_type) IN
  IF Len(l) > audit_log_cap THEN SubSeq(l, 1, audit_log_cap) ELSE l

\* log_security_event: append, then keep only the newest audit_log_cap.
log_security_event(log, event_type) ==
  LET l == Append(log, event_type) IN
  IF Len(l) > audit_log_cap THEN SubSeq(l, Len(l) - audit_log_cap + 1, Len(l)) ELSE l

\* The redis half of log_security_event: LPUSH (and EXPIRE, 30 days) on the
\* day's list when a client is attached; a call that raises is logged and
\* swallowed.  Only the newest MaxRedisEvents entries are kept in view.
redis_store_event(events, event_type) ==
  IF redis_client /\ redis_up
  THEN LET l == <<event_type>> \o events IN
       IF Len(l) > MaxRedisEvents THEN SubSeq(l, 1, MaxRedisEvents) ELSE l
  ELSE events

\* The schema of SecurityManager.authenticate_user on the typed strings:
\* email must match ^[^@]+@[^@]+\.[^@]+$, password must be non-empty.
validate_credentials(email, password) ==
  email # "not-an-email" /\ password # ""

(***************************************************************************)
(* Initial state: freshly constructed managers, no tokens issued.          *)
(***************************************************************************)
Result(op, outcome, status) ==
  [op |-> op, outcome |-> outcome, status |-> status]

\* The environment a process starts in: FLASK_ENV and SECRET_KEY.
NoSecret == "None"
ConfiguredSecret == "configured-secret"
NotStarted == "not-started"

Env(flask_env, secret) ==
  [FLASK_ENV |-> flask_env, SECRET_KEY |-> secret, secret_key |-> NotStarted,
   tokens |-> {}]

\* A process started with its secret set.
Configured ==
  [FLASK_ENV |-> "production", SECRET_KEY |-> ConfiguredSecret,
   secret_key |-> ConfiguredSecret, tokens |-> {}]

Constructed ==
  /\ now = 0
  /\ redis_client \in BOOLEAN
  /\ redis_up = TRUE
  /\ blacklisted_tokens = {}
  /\ active_sessions = EmptyMap
  /\ redis_blacklist = EmptyMap
  /\ attempts = EmptyMap
  /\ ip_attempts = EmptyMap
  /\ redis_user_attempts = EmptyMap
  /\ redis_ip_attempts = EmptyMap
  /\ users = default_users
  /\ email_index = [e \in {default_users[u].email : u \in UserIds} |->
                      CHOOSE u \in UserIds : default_users[u].email = e]
  /\ issued = {}
  /\ audit_log = <<>>
  /\ redis_events = <<>>
  /\ locks = [c \in Components |-> NoThread]
  /\ threads = [th \in Threads |-> Idle]
  /\ peer = [blacklisted_tokens |-> {}, active_sessions |-> EmptyMap]
  /\ result = Result("init", "", 0)

Init == Constructed /\ app = Configured

(***************************************************************************)
(* Environment.                                                            *)
(***************************************************************************)
Tick ==
  /\ now < MaxTime
  /\ now' = now + 1
  /\ redis_blacklist' = redis_expire(redis_blacklist, now')
  /\ redis_user_attempts' = redis_expire(redis_user_attempts, now')
  /\ redis_ip_attempts' = redis_expire(redis_ip_attempts, now')
  /\ UNCHANGED <<locks, threads, redis_events, audit_log, app, peer, redis_client, redis_up, blacklisted_tokens,
                 active_sessions, issued, attempts, ip_attempts, users, email_index, result>>

\* The redis server becomes unreachable / reachable again; its data stays.
RedisDown ==
  /\ redis_client /\ redis_up
  /\ redis_up' = FALSE
  /\ UNCHANGED <<locks, threads, redis_events, audit_log, now, app, peer, redis_client, tokvars, rlvars, users, email_index, result>>

RedisUp ==
  /\ redis_client /\ ~redis_up
  /\ redis_up' = TRUE
  /\ UNCHANGED <<locks, threads, redis_events, audit_log, now, app, peer, redis_client, tokvars, rlvars, users, email_index, result>>

(***************************************************************************)
(* auth_routes.py                                                          *)
(***************************************************************************)

\* Mutant of POST /auth/login: an address nobody registered is answered 404
\* "User not found" and no failure is recorded for it.
Login_reveals_unknown_email(email, password) ==
  LET rc == is_rate_limited(email, NoAddress)
      who == authenticate_user(email, password)
  IN
  IF rc.limited
  THEN /\ attempts' = rc.attempts_mem
       /\ result' = Result("login", "rate_limited", 429)
       /\ UNCHANGED <<locks, threads, redis_events, audit_log, now, app, peer, redis_client, redis_up, tokvars, ip_attempts,
                      redis_user_attempts, redis_ip_attempts, users, email_index>>
  ELSE IF get_user_by_email(email) = {}
  THEN /\ attempts' = rc.attempts_mem
       /\ result' = Result("login", "User not found", 404)
       /\ UNCHANGED <<locks, threads, redis_events, audit_log, now, app, peer, redis_client, redis_up, tokvars, ip_attempts,
                      redis_user_attempts, redis_ip_attempts, users, email_index>>
  ELSE IF who = {}
  THEN LET rec == record_user_attempt(rc.attempts_mem, redis_user_attempts, email, FALSE) IN
       /\ attempts' = rec.mem
       /\ redis_user_attempts' = rec.red
       /\ result' = Result("login", "Invalid credentials", 401)
       /\ UNCHANGED <<locks, threads, redis_events, audit_log, now, app, peer, redis_client, redis_up, tokvars, ip_attempts,
                      redis_ip_attempts, users, email_index>>
  ELSE LET rec == record_user_attempt(rc.attempts_mem, redis_user_attempts, email, TRUE)
           uid == CHOOSE u \in who : TRUE
           session_id == FreshSessionId
           at == generate_access_token(active_sessions, uid, users[uid],
                                       session_id, FreshJti(1))
           rt == generate_refresh_token(uid, users[uid], session_id, FreshJti(2))
       IN
       /\ Cardinality(issued) + 2 <= MaxTokens
       /\ attempts' = rec.mem
       /\ redis_user_attempts' = rec.red
       /\ active_sessions' = at.sessions
       /\ issued' = issued \cup {at.token, rt}
       /\ result' = Result("login", "success", 200)
       /\ UNCHANGED <<locks, threads, redis_events, audit_log, now, app, peer, redis_client, redis_up, blacklisted_tokens,
                      redis_blacklist, ip_attempts, redis_ip_attempts, users, email_index>>

\* POST /auth/login
Login(email, password) ==
  LET rc == is_rate_limited(email, NoAddress)
      who == authenticate_user(email, password)
  IN
  IF rc.limited
  THEN /\ attempts' = rc.attempts_mem
       /\ result' = Result("login", "rate_limited", 429)
       /\ UNCHANGED <<locks, threads, redis_events, audit_log, now, app, peer, redis_client, redis_up, tokvars, ip_attempts,
                      redis_user_attempts, redis_ip_attempts, users, email_index>>
  ELSE IF who = {}
  THEN LET rec == record_user_attempt(rc.attempts_mem, redis_user_attempts, email, FALSE) IN
       /\ attempts' = rec.mem
       /\ redis_user_attempts' = rec.red
       /\ result' = Result("login", "Invalid credentials", 401)
       /\ UNCHANGED <<locks, threads, redis_events, audit_log, now, app, peer, redis_client, redis_up, tokvars, ip_attempts,
                      redis_ip_attempts, users, email_index>>
  ELSE LET rec == record_user_attempt(rc.attempts_mem, redis_user_attempts, email, TRUE)
           uid == CHOOSE u \in who : TRUE
           session_id == FreshSessionId
           at == generate_access_token(active_sessions, uid, users[uid],
                                       session_id, FreshJti(1))
           rt == generate_refresh_token(uid, users[uid], session_id, FreshJti(2))
       IN
       /\ Cardinality(issued) + 2 <= MaxTokens
       /\ attempts' = rec.mem
       /\ redis_user_attempts' = rec.red
       /\ active_sessions' = at.sessions
       /\ issued' = issued \cup {at.token, rt}
       /\ result' = Result("login", "success", 200)
       /\ UNCHANGED <<locks, threads, redis_events, audit_log, now, app, peer, redis_client, redis_up, blacklisted_tokens,
                      redis_blacklist, ip_attempts, redis_ip_attempts, users, email_index>>

\* POST /auth/verify-token.  Building the 200 body reads payload['role'],
\* which a refresh payload lacks: the KeyError ends in the 500 handler.
VerifyToken(t) ==
  LET r == verify_token(t) IN
  /\ active_sessions' = r.sessions
  /\ result' = Result("verify", IF r.valid THEN "valid" ELSE r.error,
                      IF ~r.valid THEN 401 ELSE IF t.role = NoRole THEN 500 ELSE 200)
  /\ UNCHANGED <<locks, threads, redis_events, audit_log, now, app, peer, redis_client, redis_up, blacklisted_tokens,
                 redis_blacklist, issued, rlvars, users, email_index>>

\* Mutant of the refresh route: the payload's type is not looked at.
refresh_decision_no_type_check(t, r) ==
  IF ~r.valid THEN "Invalid refresh token"
  ELSE IF t.user_id \notin DOMAIN users \/ ~users[t.user_id].is_active
       THEN "User not found or inactive"
  ELSE "success"

\* Mutant of the refresh route: the user's is_active flag is not looked at.
refresh_decision_ignores_is_active(t, r) ==
  IF ~r.valid THEN "Invalid refresh token"
  ELSE IF t.type # "refresh" THEN "Invalid token type"
  ELSE IF t.user_id \notin DOMAIN users THEN "User not found or inactive"
  ELSE "success"

\* POST /auth/refresh: what the route answers, given verify_token's result.
refresh_decision(t, r) ==
  IF ~r.valid THEN "Invalid refresh token"
  ELSE IF t.type # "refresh" THEN "Invalid token type"
  ELSE IF t.user_id \notin DOMAIN users \/ ~users[t.user_id].is_active
       THEN "User not found or inactive"
  ELSE "success"

\* POST /auth/refresh
RefreshToken(t) ==
  LET r == verify_token(t)
      d == refresh_decision(t, r)
      at == generate_access_token(r.sessions, t.user_id, users[t.user_id],
                                  t.session_id, FreshJti(1))
  IN
  IF d # "success"
  THEN /\ active_sessions' = r.sessions
       /\ result' = Result("refresh", d, 401)
       /\ UNCHANGED <<locks, threads, redis_events, audit_log, now, app, peer, redis_client, redis_up, blacklisted_tokens,
                      redis_blacklist, issued, rlvars, users, email_index>>
  ELSE /\ Cardinality(issued) + 1 <= MaxTokens
       /\ active_sessions' = at.sessions
       /\ issued' = issued \cup {at.token}
       /\ result' = Result("refresh", "success", 200)
       /\ UNCHANGED <<locks, threads, redis_events, audit_log, now, app, peer, redis_client, redis_up, blacklisted_tokens,
                      redis_blacklist, rlvars, users, email_index>>

\* require_auth around a business handler (GET /auth/profile, /expenses...):
\* status 200 means the wrapped handler ran with the token's payload.
Protected(t) ==
  LET r == verify_token(t) IN
  /\ active_sessions' = r.sessions
  /\ result' = Result("protected",
                      IF r.valid THEN "handler_invoked" ELSE "Invalid token",
                      IF r.valid THEN 200 ELSE 401)
  /\ UNCHANGED <<locks, threads, redis_events, audit_log, now, app, peer, redis_client, redis_up, blacklisted_tokens,
                 redis_blacklist, issued, rlvars, users, email_index>>

\* POST /auth/logout: require_auth, then blacklist_token on the bearer token.
Logout(t) ==
  LET r == verify_token(t)
      b == blacklist_token(t)
  IN
  /\ active_sessions' = r.sessions
  /\ IF r.valid
     THEN /\ blacklisted_tokens' = b.blacklisted
          /\ redis_blacklist' = b.redis
          /\ result' = Result("logout", "Logout successful", 200)
     ELSE /\ UNCHANGED <<blacklisted_tokens, redis_blacklist>>
          /\ result' = Result("logout", "Invalid token", 401)
  /\ UNCHANGED <<locks, threads, redis_events, audit_log, now, app, peer, redis_client, redis_up, issued, rlvars, users, email_index>>

\* POST /auth/test-token, with token_expiry_hours configured as ttl: an access
\* token for the fixed test user under a fresh session id.
TestToken(ttl) ==
  LET at == generate_access_token_with_expiry(active_sessions, test_user.id, test_user,
                                              FreshSessionId, FreshJti(1), ttl)
  IN
  /\ Cardinality(issued) + 1 <= MaxTokens
  /\ active_sessions' = at.sessions
  /\ issued' = issued \cup {at.token}
  /\ result' = Result("test-token", "success", 200)
  /\ UNCHANGED <<locks, threads, redis_events, audit_log, now, app, peer, redis_client, redis_up, blacklisted_tokens,
                 redis_blacklist, rlvars, users, email_index>>

\* EnhancedTokenManager.blacklist_token called on its own (revoke).
BlacklistToken(t) ==
  LET b == blacklist_token(t) IN
  /\ blacklisted_tokens' = b.blacklisted
  /\ redis_blacklist' = b.redis
  /\ result' = Result("revoke", IF b.ok THEN "True" ELSE "False", 0)
  /\ UNCHANGED <<locks, threads, redis_events, audit_log, now, app, peer, redis_client, redis_up, active_sessions, issued, rlvars, users, email_index>>

\* UserManager.update_user(user_id, is_active=flag)
UpdateUser(u, flag) ==
  /\ u \in DOMAIN users
  /\ users[u].is_active # flag
  /\ users' = [users EXCEPT ![u].is_active = flag]
  /\ UNCHANGED email_index
  /\ UNCHANGED <<locks, threads, redis_events, audit_log, now, app, peer, redis_client, redis_up, tokvars, rlvars, result>>

\* update_user(user_id, password=p) -> User.set_password(p): a new salt and
\* the hash of p under it.
SetPassword(u, password) ==
  /\ u \in DOMAIN users
  /\ \E salt \in Salts :
       users' = [users EXCEPT ![u].password_salt = salt,
                              ![u].password_hash = hash_password(password, salt)]
  /\ result' = Result("set_password", "", 0)
  /\ UNCHANGED <<email_index, locks, threads, redis_events, audit_log, now,
                 app, peer, redis_client, redis_up, tokvars, rlvars>>

\* A user restored with User.from_dict: password_hash and password_salt are
\* taken from the dict as they are (absent: None).
FromDict(u, stored_hash, stored_salt) ==
  /\ u \in DOMAIN users
  /\ users' = [users EXCEPT ![u].password_salt = stored_salt,
                            ![u].password_hash = stored_hash]
  /\ result' = Result("from_dict", "", 0)
  /\ UNCHANGED <<email_index, locks, threads, redis_events, audit_log, now,
                 app, peer, redis_client, redis_up, tokvars, rlvars>>

\* User.verify_password(password) on a stored user.
VerifyPassword(u, password) ==
  /\ u \in DOMAIN users
  /\ result' = Result("verify_password", user_verify_password(users[u], password), 0)
  /\ UNCHANGED <<users, email_index, locks, threads, redis_events, audit_log, now,
                 app, peer, redis_client, redis_up, tokvars, rlvars>>

\* EnhancedHasher.verify_password(password, stored_hash, salt) called directly.
HasherVerifyPassword(password, stored_hash, salt) ==
  /\ result' = Result("hasher_verify_password",
                      hasher_verify_password(password, stored_hash, salt), 0)
  /\ UNCHANGED <<users, email_index, locks, threads, redis_events, audit_log, now,
                 app, peer, redis_client, redis_up, tokvars, rlvars>>

\* Mutant of create_user: the address is not looked up in the index first.
CreateUser_no_duplicate_check(email, password) ==
  LET e == normalize_email(email) IN
  /\ FreshUserIds # {}
  /\ users' = Put(users, FreshUserId,
                  [email |-> e, role |-> "user", is_active |-> TRUE,
                   password_salt |-> "s3",
                   password_hash |-> hash_password(password, "s3")])
  /\ email_index' = Put(email_index, e, FreshUserId)
  /\ result' = Result("create_user", "created", 0)
  /\ UNCHANGED <<locks, threads, redis_events, audit_log, now, app, peer, redis_client,
                 redis_up, tokvars, rlvars>>

\* UserManager.create_user(email, password): ValueError when the normalised
\* address is in the index, else a new user under a fresh id.
CreateUser(email, password) ==
  LET e == normalize_email(email) IN
  /\ e \in DOMAIN email_index \/ FreshUserIds # {}
  /\ IF e \in DOMAIN email_index
     THEN /\ result' = Result("create_user", "ValueError", 0)
          /\ UNCHANGED <<users, email_index>>
     ELSE /\ users' = Put(users, FreshUserId,
                          [email |-> e, role |-> "user", is_active |-> TRUE,
                           password_salt |-> "s3",
                           password_hash |-> hash_password(password, "s3")])
          /\ email_index' = Put(email_index, e, FreshUserId)
          /\ result' = Result("create_user", "created", 0)
  /\ UNCHANGED <<locks, threads, redis_events, audit_log, now, app, peer, redis_client,
                 redis_up, tokvars, rlvars>>

\* UserManager.delete_user(user_id)
DeleteUser(u) ==
  /\ u \in DOMAIN users
  /\ users' = Del(users, u)
  /\ email_index' = Del(email_index, users[u].email)
  /\ UNCHANGED <<locks, threads, redis_events, audit_log, now, app, peer, redis_client, redis_up, tokvars, rlvars, result>>

(***************************************************************************)
(* SecurityManager                                                         *)
(***************************************************************************)

\* SecurityManager.authenticate_user(email, password, ip_address): the
\* rate-limit check, the input validation, then the placeholder answer.
AuthenticateUser(email, password, ip_address) ==
  LET rc == is_rate_limited(email, ip_address) IN
  IF rc.limited
  THEN /\ attempts' = rc.attempts_mem
       /\ ip_attempts' = rc.ip_mem
       /\ audit_log' = log_security_event(audit_log, "login_blocked")
       /\ redis_events' = redis_store_event(redis_events, "login_blocked")
       /\ result' = Result("authenticate", "rate_limited", 0)
       /\ UNCHANGED <<locks, threads, now, app, peer, redis_client, redis_up, tokvars, redis_user_attempts,
                      redis_ip_attempts, users, email_index>>
  ELSE IF ~validate_credentials(email, password)
  THEN LET u == record_user_attempt(rc.attempts_mem, redis_user_attempts, email, FALSE)
           i == IF ip_address # NoAddress
                THEN record_ip_attempt(rc.ip_mem, redis_ip_attempts, ip_address, FALSE)
                ELSE [mem |-> rc.ip_mem, red |-> redis_ip_attempts]
       IN
       /\ attempts' = u.mem
       /\ redis_user_attempts' = u.red
       /\ ip_attempts' = i.mem
       /\ redis_ip_attempts' = i.red
       /\ audit_log' = log_security_event(audit_log, "login_failed")
       /\ redis_events' = redis_store_event(redis_events, "login_failed")
       /\ result' = Result("authenticate", "Invalid input provided", 0)
       /\ UNCHANGED <<locks, threads, now, app, peer, redis_client, redis_up, tokvars, users, email_index>>
  ELSE /\ attempts' = rc.attempts_mem
       /\ ip_attempts' = rc.ip_mem
       /\ result' = Result("authenticate", "success", 0)
       /\ UNCHANGED <<locks, threads, redis_events, audit_log, now, app, peer, redis_client, redis_up, tokvars,
                      redis_user_attempts, redis_ip_attempts, users, email_index>>

\* Mutant of log_security_event: the redis write comes first and is not
\* guarded, so a cache that does not answer makes the call raise before the
\* event is stored.
LogSecurityEvent_redis_unguarded(event_type) ==
  IF redis_client /\ ~redis_up
  THEN /\ result' = Result("log_security_event", "raised", 0)
       /\ UNCHANGED <<locks, threads, redis_events, audit_log, now, app, peer, redis_client, redis_up, tokvars,
                      rlvars, users, email_index>>
  ELSE /\ audit_log' = log_security_event(audit_log, event_type)
       /\ redis_events' = redis_store_event(redis_events, event_type)
       /\ result' = Result("log_security_event", "returned", 0)
       /\ UNCHANGED <<locks, threads, now, app, peer, redis_client, redis_up, tokvars, rlvars, users, email_index>>

\* SecurityAuditor.log_security_event(event_type, ...) called on its own.
LogSecurityEvent(event_type) ==
  /\ audit_log' = log_security_event(audit_log, event_type)
  /\ redis_events' = redis_store_event(redis_events, event_type)
  /\ result' = Result("log_security_event", "returned", 0)
  /\ UNCHANGED <<locks, threads, now, app, peer, redis_client, redis_up, tokvars, rlvars, users, email_index>>

(***************************************************************************)
(* AdvancedRateLimiter entry points called on their own.                   *)
(***************************************************************************)

\* is_rate_limited(identifier, ip_address)
IsRateLimited(identifier, ip_address) ==
  LET r == is_rate_limited(identifier, ip_address) IN
  /\ attempts' = r.attempts_mem
  /\ ip_attempts' = r.ip_mem
  /\ result' = Result("is_rate_limited",
                      IF r.limited THEN r.reason ELSE "not_limited", 0)
  /\ UNCHANGED <<locks, threads, redis_events, audit_log, now, app, peer, redis_client, redis_up, tokvars, redis_user_attempts,
                 redis_ip_attempts, users, email_index>>

RECURSIVE SumLen(_, _)
SumLen(f, keys) ==
  IF keys = {} THEN 0
  ELSE LET k == CHOOSE x \in keys : TRUE IN Len(f[k]) + SumLen(f, keys \ {k})

\* Timestamps held by the four stores together.
Stored ==
  SumLen(attempts, DOMAIN attempts) + SumLen(ip_attempts, DOMAIN ip_attempts)
  + SumLen([k \in DOMAIN redis_user_attempts |-> redis_user_attempts[k].ts], DOMAIN redis_user_attempts)
  + SumLen([k \in DOMAIN redis_ip_attempts |-> redis_ip_attempts[k].ts], DOMAIN redis_ip_attempts)

\* record_attempt(identifier, ip_address, success)
RecordAttempt(identifier, ip_address, success) ==
  LET u == record_user_attempt(attempts, redis_user_attempts, identifier, success)
      i == IF ip_address # NoAddress
           THEN record_ip_attempt(ip_attempts, redis_ip_attempts, ip_address, success)
           ELSE [mem |-> ip_attempts, red |-> redis_ip_attempts]
  IN
  /\ ~success => Stored + (IF ip_address # NoAddress THEN 2 ELSE 1) <= 2 * MaxRecords
  /\ attempts' = u.mem
  /\ redis_user_attempts' = u.red
  /\ ip_attempts' = i.mem
  /\ redis_ip_attempts' = i.red
  /\ result' = Result("record_attempt", IF success THEN "success" ELSE "failure", 0)
  /\ UNCHANGED <<locks, threads, redis_events, audit_log, now, app, peer, redis_client, redis_up, tokvars, users, email_index>>

\* The limiter on its own, with either backend; the shared cache, when one
\* is configured, answers every call.
NextRL ==
  \/ Tick
  \/ \E id \in Identifiers, ip \in Addresses : IsRateLimited(id, ip)
  \/ \E id \in Identifiers, ip \in Addresses, ok \in BOOLEAN : RecordAttempt(id, ip, ok)

SpecRL == Init /\ [][NextRL]_vars

\* The limiter with two identities behind one address.
NextRL2 ==
  \/ Tick
  \/ \E id \in Identifiers2, ip \in Addresses : IsRateLimited(id, ip)
  \/ \E id \in Identifiers2, ip \in Addresses, ok \in BOOLEAN :
       RecordAttempt(id, ip, ok) /\ Stored' <= MaxRecords2

SpecRL2 == Init /\ [][NextRL2]_vars

Next ==
  \/ Tick
  \/ RedisDown
  \/ RedisUp
  \/ \E c \in Credentials : Login(c[1], c[2])
  \/ \E t \in Presentable : VerifyToken(t)
  \/ \E t \in Presentable : RefreshToken(t)
  \/ \E t \in Presentable : Protected(t)
  \/ \E t \in Presentable : Logout(t)
  \/ \E t \in Presentable : BlacklistToken(t)

Spec == Init /\ [][Next]_vars

\* POST /auth/login on its own, while an administrator deactivates,
\* reactivates or deletes the demo account.  The shared cache, when one is
\* configured, answers every call.
NextLogin ==
  \/ Tick
  \/ \E e \in Emails \ {"not-an-email"}, p \in Passwords : Login(e, p)
  \/ \E flag \in BOOLEAN : UpdateUser("u2", flag)
  \/ DeleteUser("u2")

SpecLogin == Init /\ [][NextLogin]_vars

\* Issuing under different expiry settings and verifying; nothing is revoked.
NextTestToken ==
  \/ Tick
  \/ RedisDown
  \/ RedisUp
  \/ \E ttl \in AccessTtls : TestToken(ttl)
  \/ \E t \in Presentable : VerifyToken(t)

SpecTestToken == Init /\ [][NextTestToken]_vars

\* The four operations that talk to the shared cache, called on their own
\* while the cache goes down and comes back.
NextCache ==
  \/ Tick
  \/ RedisDown
  \/ RedisUp
  \/ TestToken(token_expiry) /\ Cardinality(issued') <= MaxCacheTokens
  \/ \E t \in Presentable : VerifyToken(t)
  \/ \E t \in Presentable : BlacklistToken(t)
  \/ \E id \in Identifiers, ip \in Addresses : IsRateLimited(id, ip)
  \/ \E id \in Identifiers, ip \in Addresses, ok \in BOOLEAN :
       RecordAttempt(id, ip, ok) /\ Stored' <= MaxCacheRecords

SpecCache == Init /\ [][NextCache]_vars

(***************************************************************************)
(* Request threads.  A call is a sequence of blocks, one for each          *)
(* `with self._lock:` statement on its path; a block is entered, executed   *)
(* and left in separate steps, so that the steps of other threads come in  *)
(* between.  Code outside the blocks (jwt.decode, the redis calls) runs in  *)
(* the step that skips or leaves a block.                                  *)
(***************************************************************************)

\* The component each block of a call belongs to.
\*   verify_token:          _is_token_blacklisted, _is_session_active
\*   generate_access_token: _track_session
\*   logout_user:           blacklist_token, log_security_event
\*   record_attempt:        _record_user_attempt, _record_ip_attempt
Component(op, blk) ==
  (CASE op = "verify_token" -> <<"token_manager", "token_manager">>
     [] op = "generate_access_token" -> <<"token_manager">>
     [] op = "logout_user" -> <<"token_manager", "auditor">>
     [] op = "record_attempt" -> <<"rate_limiter", "rate_limiter">>)[blk]

Blocks(op) == IF op = "generate_access_token" THEN 1 ELSE 2

\* Mutant of the token manager: verify_token's blocks take the rate
\* limiter's lock instead of the token manager's own.
Lock_limiter_lock_in_verify(op, blk) ==
  IF op = "verify_token" THEN "rate_limiter" ELSE Component(op, blk)

\* The lock a block's with-statement takes: self._lock of its component.
Lock(op, blk) == Component(op, blk)

\* Whether the thread's current block is on the path of its call: the
\* in-memory branches of the blacklist lookup and of the limiter are reached
\* only without an answering redis; the session check only after a clean
\* decode of a token not reported revoked; the audit only after a revoke.
Runs(th) ==
  LET c == threads[th] IN
  CASE c.op = "verify_token" /\ c.blk = 1 ->
         jwt_decode(c.arg, FALSE) = "ok" /\ c.arg.jti # 0 /\ ~(redis_client /\ redis_up)
    [] c.op = "verify_token" /\ c.blk = 2 ->
         c.ret = "" /\ jwt_decode(c.arg, TRUE) = "ok"
    [] c.op = "generate_access_token" -> TRUE
    [] c.op = "logout_user" /\ c.blk = 1 ->
         jwt_decode(c.arg, FALSE) = "ok" /\ c.arg.jti # 0
    [] c.op = "logout_user" /\ c.blk = 2 -> c.ret = "True"
    [] c.op = "record_attempt" -> ~(redis_client /\ redis_up)

\* The thread after its current block: at the next block, or returned.
Advance(c, ret) ==
  IF c.blk < Blocks(c.op)
  THEN [c EXCEPT !.blk = @ + 1, !.at = "enter", !.ret = ret]
  ELSE Idle

\* What the caller sees when the call returns after this block.
Returned(c, ret) ==
  IF c.blk < Blocks(c.op) THEN result ELSE Result(c.op, ret, 0)

\* A request thread enters a call.
Call(th, op, arg) ==
  /\ threads[th].op = "idle"
  /\ threads' = [threads EXCEPT ![th] =
                   [op |-> op, blk |-> 1, at |-> "enter", arg |-> arg, ret |-> ""]]
  /\ UNCHANGED <<locks, redis_events, audit_log, now, app, peer, redis_client, redis_up,
                 tokvars, rlvars, users, email_index, result>>

\* The thread's path does not go through the block; the code around it runs.
Skip(th) ==
  LET c == threads[th]
      ret == CASE c.op = "verify_token" /\ c.blk = 1 ->
                    IF is_token_blacklisted(c.arg) THEN "Token has been revoked" ELSE ""
               [] c.op = "verify_token" /\ c.blk = 2 ->
                    IF c.ret # "" THEN c.ret
                    ELSE IF jwt_decode(c.arg, TRUE) = "expired" THEN "Token has expired"
                    ELSE "Invalid token"
               [] c.op = "logout_user" -> "False"
               [] OTHER -> c.ret
  IN
  /\ c.at = "enter"
  /\ ~Runs(th)
  /\ redis_user_attempts' =
       IF c.op = "record_attempt" /\ c.blk = 1
       THEN redis_lpush_expire(redis_user_attempts, c.arg) ELSE redis_user_attempts
  /\ redis_ip_attempts' =
       IF c.op = "record_attempt" /\ c.blk = 2
       THEN redis_lpush_expire(redis_ip_attempts, "1.2.3.4") ELSE redis_ip_attempts
  /\ threads' = [threads EXCEPT ![th] = Advance(c, ret)]
  /\ result' = Returned(c, ret)
  /\ UNCHANGED <<locks, redis_events, audit_log, now, app, peer, redis_client, redis_up,
                 tokvars, attempts, ip_attempts, users, email_index>>

\* with self._lock: the thread waits until the lock is free (or its own).
Enter(th) ==
  LET c == threads[th] IN
  /\ c.at = "enter"
  /\ Runs(th)
  /\ locks[Lock(c.op, c.blk)] \in {NoThread, th}
  /\ locks' = [locks EXCEPT ![Lock(c.op, c.blk)] = th]
  /\ threads' = [threads EXCEPT ![th].at = "body"]
  /\ UNCHANGED <<redis_events, audit_log, now, app, peer, redis_client, redis_up,
                 tokvars, rlvars, users, email_index, result>>

\* The statements inside the with-block.
Body(th) ==
  LET c == threads[th]
      s == is_session_active(active_sessions, c.arg.session_id)
      g == generate_access_token(active_sessions, test_user.id, test_user,
                                 FreshSessionId, FreshJti(1))
      ret == CASE c.op = "verify_token" /\ c.blk = 1 ->
                    IF c.arg.jti \in blacklisted_tokens
                    THEN "Token has been revoked" ELSE ""
               [] c.op = "verify_token" /\ c.blk = 2 ->
                    IF s.active THEN "valid" ELSE "Session has expired"
               [] OTHER -> c.ret
  IN
  /\ c.at = "body"
  /\ active_sessions' =
       CASE c.op = "verify_token" /\ c.blk = 2 -> s.sessions
         [] c.op = "generate_access_token" -> g.sessions
         [] OTHER -> active_sessions
  /\ issued' = IF c.op = "generate_access_token" THEN issued \cup {g.token} ELSE issued
  /\ blacklisted_tokens' =
       IF c.op = "logout_user" /\ c.blk = 1
       THEN blacklisted_tokens \cup {c.arg.jti} ELSE blacklisted_tokens
  /\ audit_log' =
       IF c.op = "logout_user" /\ c.blk = 2
       THEN log_security_event(audit_log, "login_success") ELSE audit_log
  /\ attempts' =
       IF c.op = "record_attempt" /\ c.blk = 1
       THEN record_user_attempt(attempts, redis_user_attempts, c.arg, FALSE).mem
       ELSE attempts
  /\ ip_attempts' =
       IF c.op = "record_attempt" /\ c.blk = 2
       THEN record_ip_attempt(ip_attempts, redis_ip_attempts, "1.2.3.4", FALSE).mem
       ELSE ip_attempts
  /\ threads' = [threads EXCEPT ![th] = [c EXCEPT !.at = "leave", !.ret = ret]]
  /\ UNCHANGED <<locks, redis_events, now, app, peer, redis_client, redis_up, redis_blacklist,
                 redis_user_attempts, redis_ip_attempts, users, email_index, result>>

\* The end of the with-block: the lock is released; then the code after it
\* (the SETEX of blacklist_token, the LPUSH of log_security_event).
Leave(th) ==
  LET c == threads[th]
      ret == IF c.op = "logout_user" /\ c.blk = 1 THEN "True" ELSE c.ret
  IN
  /\ c.at = "leave"
  /\ locks' = [k \in Components |-> IF locks[k] = th THEN NoThread ELSE locks[k]]
  /\ redis_blacklist' =
       IF c.op = "logout_user" /\ c.blk = 1
       THEN blacklist_token(c.arg).redis ELSE redis_blacklist
  /\ redis_events' =
       IF c.op = "logout_user" /\ c.blk = 2
       THEN redis_store_event(redis_events, "login_success") ELSE redis_events
  /\ threads' = [threads EXCEPT ![th] = Advance(c, ret)]
  /\ result' = Returned(c, ret)
  /\ UNCHANGED <<audit_log, now, app, peer, redis_client, redis_up, blacklisted_tokens,
                 active_sessions, issued, rlvars, users, email_index>>

\* Calls in progress of one kind.
InCall(op) == Cardinality({th \in Threads : threads[th].op = op})

\* Two request threads inside the token manager, the limiter and the auditor.
NextLocks ==
  \E th \in Threads :
    \/ /\ Cardinality(issued) + InCall("generate_access_token") < MaxLockTokens
       /\ Call(th, "generate_access_token", 0)
    \/ \E t \in Presentable : Call(th, "verify_token", t)
    \/ \E t \in Presentable : Call(th, "logout_user", t)
    \/ /\ Stored + 2 * InCall("record_attempt") + 2 <= MaxLockRecords
       /\ \E id \in Identifiers : Call(th, "record_attempt", id)
    \/ Skip(th)
    \/ Enter(th)
    \/ Body(th)
    \/ Leave(th)

SpecLocks == Init /\ [][NextLocks]_vars

\* The user store on its own: registrations, activations and deletions in
\* any order (each runs under the manager's lock from start to end).
NextUsers ==
  \/ \E e \in NewEmails, p \in Passwords : CreateUser(e, p)
  \/ \E u \in UserIds \cup NewUserIds, flag \in BOOLEAN : UpdateUser(u, flag)
  \/ \E u \in UserIds \cup NewUserIds : DeleteUser(u)

SpecUsers == Init /\ [][NextUsers]_vars

\* What a stored password_hash / password_salt can be: a proper hex hash,
\* None, the empty string, ASCII text that is no hash, text with non-ASCII
\* characters.
StoredHashes ==
  {HexHash("DemoPass123!", "s2"), NotAHash("None"), NotAHash("empty"),
   NotAHash("ascii_junk"), NotAHash("non_ascii")}
StoredSalts == {"s2", NoneSalt, "", "not-hex"}

\* Password hashing on its own: passwords are set, users are restored from
\* stored dicts, passwords are verified.
NextHasher ==
  \/ \E p \in TypedPasswords : SetPassword("u2", p)
  \/ \E h \in StoredHashes, sl \in StoredSalts : FromDict("u2", h, sl)
  \/ \E u \in UserIds, p \in TypedPasswords : VerifyPassword(u, p)
  \/ \E p \in TypedPasswords, h \in StoredHashes, sl \in StoredSalts :
       HasherVerifyPassword(p, h, sl)

SpecHasher == Init /\ [][NextHasher]_vars

\* ---------------------------------------------------------------------------
\* InputValidator.  A value is what data.get(field) returns: None, or a string
\* described by its text, its length, whether the e-mail pattern of
\* SecurityManager.authenticate_user matches it, what _sanitize_string makes of
\* it, and whether _contains_sql_injection finds a pattern in the sanitized text.
NoneValue == [raw |-> "None", len |-> 0, email |-> FALSE, clean |-> "None", sql |-> FALSE]

Text(raw, len, email, clean, sql) ==
  [raw |-> raw, len |-> len, email |-> email, clean |-> clean, sql |-> sql]

FieldValues ==
  { NoneValue,
    Text("", 0, FALSE, "", FALSE),
    Text("demo@jobtract.com", 17, TRUE, "demo@jobtract.com", FALSE),
    Text("short", 5, FALSE, "short", FALSE),
    Text(" <b>12345 ", 10, FALSE, "&lt;b&gt;12345", FALSE),
    Text("a@b.co#1", 8, TRUE, "a@b.co#1", TRUE),
    Text("x@y.zz -- drop table users", 26, TRUE, "x@y.zz -- drop table users", TRUE) }

\* html.escape(value.strip()), NUL bytes removed, runs of white space folded.
sanitize_string(value) == value.clean

contains_sql_injection(value) == value.sql

NoPattern == "none"
EmailPattern == "^[^@]+@[^@]+\\.[^@]+$"

\* rules.get('required', False), rules.get('min_length', 0),
\* rules.get('max_length', 1000), rules.get('pattern').
Rules(required, min_length, max_length, pattern) ==
  [required |-> required, min_length |-> min_length,
   max_length |-> max_length, pattern |-> pattern]

\* The fields in the order schema.items() yields them.
SchemaFields == <<"email", "password", "phone">>

\* email as in SecurityManager.authenticate_user, password and phone as in
\* the register route.
Schema ==
  [email |-> Rules(TRUE, 0, 1000, EmailPattern),
   password |-> Rules(TRUE, 8, 1000, NoPattern),
   phone |-> Rules(FALSE, 0, 20, NoPattern)]

NoError == ""

\* One turn of the loop body for a field: the error appended (if any) and the
\* value put into sanitized_data (if any).
validate_field(field, value, rules) ==
  LET empty == value = NoneValue \/ value.raw = ""
      Fails(e) == [error |-> e, stored |-> FALSE, value |-> "None"]
  IN
  IF rules.required /\ empty THEN Fails("is required")
  ELSE IF empty THEN [error |-> NoError, stored |-> TRUE, value |-> value.raw]
  ELSE IF value.len < rules.min_length THEN Fails("must be at least min_length characters long")
  ELSE IF value.len > rules.max_length THEN Fails("must be no more than max_length characters long")
  ELSE IF rules.pattern # NoPattern /\ ~value.email THEN Fails("format is invalid")
  ELSE IF contains_sql_injection(value) THEN Fails("contains potentially dangerous content")
  ELSE [error |-> NoError, stored |-> TRUE, value |-> sanitize_string(value)]

\* Mutant of the loop: validation stops at the first failing field.
RECURSIVE validate_loop_stops_at_first_failure(_, _, _, _, _)
validate_loop_stops_at_first_failure(data, schema, i, errors, sanitized_data) ==
  IF i > Len(SchemaFields) \/ Len(errors) > 0
  THEN [valid |-> Len(errors) = 0, errors |-> errors, data |-> sanitized_data]
  ELSE LET field == SchemaFields[i]
           o == validate_field(field, data[field], schema[field])
       IN validate_loop_stops_at_first_failure(data, schema, i + 1,
            IF o.error # NoError
            THEN Append(errors, [field |-> field, error |-> o.error])
            ELSE errors,
            IF o.stored
            THEN [f \in (DOMAIN sanitized_data) \cup {field} |->
                    IF f = field THEN o.value ELSE sanitized_data[f]]
            ELSE sanitized_data)

RECURSIVE validate_loop(_, _, _, _, _)
validate_loop(data, schema, i, errors, sanitized_data) ==
  IF i > Len(SchemaFields)
  THEN [valid |-> Len(errors) = 0, errors |-> errors, data |-> sanitized_data]
  ELSE LET field == SchemaFields[i]
           o == validate_field(field, data[field], schema[field])
       IN validate_loop(data, schema, i + 1,
            IF o.error # NoError
            THEN Append(errors, [field |-> field, error |-> o.error])
            ELSE errors,
            IF o.stored
            THEN [f \in (DOMAIN sanitized_data) \cup {field} |->
                    IF f = field THEN o.value ELSE sanitized_data[f]]
            ELSE sanitized_data)

validate_and_sanitize(data, schema) == validate_loop(data, schema, 1, <<>>, EmptyMap)

\* The request bodies: a missing key reads as None.  Every value is tried
\* as the email; the password and the phone leave out values that meet the
\* same rule of theirs as another value does.
Inputs ==
  {[email |-> e, password |-> p, phone |-> ph] :
     e \in FieldValues,
     p \in {v \in FieldValues : v.raw # "" /\ v.len # 26},
     ph \in {v \in FieldValues : v.len \notin {10, 17}}}

\* InputValidator.validate_and_sanitize(data, schema) called by a route.
ValidateAndSanitize(data) ==
  /\ result' = Result("validate_and_sanitize", validate_and_sanitize(data, Schema), 0)
  /\ UNCHANGED <<users, email_index, locks, threads, redis_events, audit_log, now,
                 app, peer, redis_client, redis_up, tokvars, rlvars>>

\* The validator on its own.
NextValidator == \E data \in Inputs : ValidateAndSanitize(data)

SpecValidator == Init /\ [][NextValidator]_vars

\* ---------------------------------------------------------------------------
\* Start-up: where the signing secret comes from.
BuiltinDefault == "your-secret-key-here"
GeneratedSecret == "secrets.token_hex(32)"

\* api/app.py at import: app.config['SECRET_KEY'] =
\* os.environ.get('SECRET_KEY', 'your-secret-key-here'); FLASK_ENV is not read.
AppStartup ==
  /\ app.secret_key = NotStarted
  /\ app' = [app EXCEPT !.secret_key =
               IF app.SECRET_KEY = NoSecret THEN BuiltinDefault ELSE app.SECRET_KEY]
  /\ result' = Result("startup", "app", 0)
  /\ UNCHANGED <<peer, locks, threads, redis_events, audit_log, now, redis_client,
                 redis_up, tokvars, rlvars, users, email_index>>

\* backend/config_settings.py: config[FLASK_ENV]().SECRET_KEY.  The base class
\* takes the environment's value or generates one; a ProductionConfig instance
\* raises ValueError when the variable is missing.
LoadConfig ==
  /\ app.secret_key = NotStarted
  /\ IF app.SECRET_KEY # NoSecret
     THEN /\ app' = [app EXCEPT !.secret_key = app.SECRET_KEY]
          /\ result' = Result("startup", "config", 0)
     ELSE IF app.FLASK_ENV = "production"
     THEN /\ result' = Result("startup", "ValueError", 0)
          /\ UNCHANGED app
     ELSE /\ app' = [app EXCEPT !.secret_key = GeneratedSecret]
          /\ result' = Result("startup", "config", 0)
  /\ UNCHANGED <<peer, locks, threads, redis_events, audit_log, now, redis_client,
                 redis_up, tokvars, rlvars, users, email_index>>

\* api/app.py generate_token(user_id): exp = now + 24 h, signed with
\* app.config['SECRET_KEY'].
GenerateToken(user_id) ==
  /\ app.secret_key # NotStarted
  /\ Cardinality(app.tokens) < MaxAppTokens
  /\ app' = [app EXCEPT !.tokens = @ \cup
               {[user_id |-> user_id, exp |-> now + token_expiry,
                 key |-> app.secret_key]}]
  /\ result' = Result("generate_token", user_id, 0)
  /\ UNCHANGED <<peer, locks, threads, redis_events, audit_log, now, redis_client,
                 redis_up, tokvars, rlvars, users, email_index>>

\* A token nobody on the server signed: the key printed in the source.
ForgedTokens == {[user_id |-> "u1", exp |-> MaxTime + 1, key |-> BuiltinDefault]}

\* api/app.py verify_token(token): the user id, or None when jwt.decode raises.
AppVerifyToken(t) ==
  /\ app.secret_key # NotStarted
  /\ result' = Result("app_verify_token",
                      IF t.key = app.secret_key /\ now < t.exp
                      THEN t.user_id ELSE "None", 0)
  /\ UNCHANGED <<app, peer, locks, threads, redis_events, audit_log, now,
                 redis_client, redis_up, tokvars, rlvars, users, email_index>>

InitStartup ==
  /\ Constructed
  /\ app \in {Env(e, k) : e \in {"development", "production"},
                          k \in {NoSecret, ConfiguredSecret}}

NextStartup ==
  \/ Tick
  \/ AppStartup
  \/ LoadConfig
  \/ \E u \in UserIds : GenerateToken(u)
  \/ \E t \in app.tokens \cup ForgedTokens : AppVerifyToken(t)

SpecStartup == InitStartup /\ [][NextStartup]_vars

\* ---------------------------------------------------------------------------
\* POST /auth/refresh as the request thread runs it: three calls, each under
\* its own lock, with the steps of other requests in between.

\* verify_token(refresh_token) and the type test; a request that fails here
\* has answered 401.
RefreshVerify(th, t) ==
  LET r == verify_token(t)
      d == IF ~r.valid THEN "Invalid refresh token"
           ELSE IF t.type # "refresh" THEN "Invalid token type"
           ELSE "success"
  IN
  /\ threads[th].op = "idle"
  /\ active_sessions' = r.sessions
  /\ IF d # "success"
     THEN /\ result' = Result("refresh", d, 401)
          /\ UNCHANGED threads
     ELSE /\ threads' = [threads EXCEPT ![th] =
                           [op |-> "refresh", blk |-> 0, at |-> "lookup",
                            arg |-> t, ret |-> ""]]
          /\ UNCHANGED result
  /\ UNCHANGED <<locks, redis_events, audit_log, now, app, peer, redis_client,
                 redis_up, blacklisted_tokens, redis_blacklist, issued, rlvars,
                 users, email_index>>

\* user_manager.get_user_by_id(payload['user_id']) and the is_active test.
RefreshLookup(th) ==
  LET c == threads[th] IN
  /\ c.op = "refresh"
  /\ c.at = "lookup"
  /\ IF c.arg.user_id \notin DOMAIN users \/ ~users[c.arg.user_id].is_active
     THEN /\ threads' = [threads EXCEPT ![th] = Idle]
          /\ result' = Result("refresh", "User not found or inactive", 401)
     ELSE /\ threads' = [threads EXCEPT ![th].at = "generate"]
          /\ UNCHANGED result
  /\ UNCHANGED <<locks, redis_events, audit_log, now, app, peer, redis_client,
                 redis_up, tokvars, rlvars, users, email_index>>

\* generate_access_token(user.to_dict(), session_id) with the user read at
\* the lookup, and the 200 answer.
RefreshGenerate(th) ==
  LET c == threads[th]
      at == generate_access_token(active_sessions, c.arg.user_id,
                                  [email |-> c.arg.email, role |-> c.arg.role],
                                  c.arg.session_id, FreshJti(1))
  IN
  /\ c.op = "refresh"
  /\ c.at = "generate"
  /\ Cardinality(issued) + 1 <= MaxTokens
  /\ active_sessions' = at.sessions
  /\ issued' = issued \cup {at.token}
  /\ threads' = [threads EXCEPT ![th] = Idle]
  /\ result' = Result("refresh", "success", 200)
  /\ UNCHANGED <<locks, redis_events, audit_log, now, app, peer, redis_client,
                 redis_up, blacklisted_tokens, redis_blacklist, rlvars, users,
                 email_index>>

\* Login, verification, logout and refresh requests running side by side.
NextRefresh ==
  \/ Tick
  \/ \E c \in Credentials : Login(c[1], c[2])
  \/ \E t \in Presentable : VerifyToken(t)
  \/ \E t \in Presentable : Logout(t)
  \/ \E th \in Threads, t \in Presentable : RefreshVerify(th, t)
  \/ \E th \in Threads : RefreshLookup(th)
  \/ \E th \in Threads : RefreshGenerate(th)

SpecRefresh == Init /\ [][NextRefresh]_vars

\* ---------------------------------------------------------------------------
\* POST /auth/login as the request thread runs it: the limiter's check, the
\* password check and the limiter's record are three separately locked calls.

\* rate_limiter.is_rate_limited(email); a limited request has answered 429.
LoginCheck(th, email, password) ==
  LET rc == is_rate_limited(email, NoAddress) IN
  /\ threads[th].op = "idle"
  /\ attempts' = rc.attempts_mem
  /\ IF rc.limited
     THEN /\ result' = Result("login", "rate_limited", 429)
          /\ UNCHANGED threads
     ELSE /\ threads' = [threads EXCEPT ![th] =
                           [op |-> "login", blk |-> 0, at |-> "authenticate",
                            arg |-> email, ret |-> password]]
          /\ UNCHANGED result
  /\ UNCHANGED <<locks, redis_events, audit_log, now, app, peer, redis_client,
                 redis_up, tokvars, ip_attempts, redis_user_attempts,
                 redis_ip_attempts, users, email_index>>

\* user_manager.authenticate_user(email, password): the credential check.
LoginAuthenticate(th) ==
  LET c == threads[th]
      who == authenticate_user(c.arg, c.ret)
  IN
  /\ c.op = "login"
  /\ c.at = "authenticate"
  /\ threads' = [threads EXCEPT ![th] =
                   [c EXCEPT !.at = "record",
                             !.ret = IF who = {} THEN "None"
                                     ELSE CHOOSE u \in who : TRUE]]
  /\ UNCHANGED <<locks, redis_events, audit_log, now, app, peer, redis_client,
                 redis_up, tokvars, rlvars, users, email_index, result>>

\* record_attempt(email, success) and the answer: 401, or the two tokens.
LoginRecord(th) ==
  LET c == threads[th]
      rec == record_user_attempt(attempts, redis_user_attempts, c.arg, c.ret # "None")
      at == generate_access_token(active_sessions, c.ret, users[c.ret],
                                  FreshSessionId, FreshJti(1))
      rt == generate_refresh_token(c.ret, users[c.ret], FreshSessionId, FreshJti(2))
  IN
  /\ c.op = "login"
  /\ c.at = "record"
  /\ attempts' = rec.mem
  /\ redis_user_attempts' = rec.red
  /\ threads' = [threads EXCEPT ![th] = Idle]
  /\ IF c.ret = "None"
     THEN /\ Stored + 1 <= MaxRecords2
          /\ result' = Result("login", "Invalid credentials", 401)
          /\ UNCHANGED <<active_sessions, issued>>
     ELSE /\ Cardinality(issued) + 2 <= MaxTokens
          /\ active_sessions' = at.sessions
          /\ issued' = issued \cup {at.token, rt}
          /\ result' = Result("login", "success", 200)
  /\ UNCHANGED <<locks, redis_events, audit_log, now, app, peer, redis_client,
                 redis_up, blacklisted_tokens, redis_blacklist, ip_attempts,
                 redis_ip_attempts, users, email_index>>

\* Login requests for the demo account running side by side.
NextLoginThreads ==
  \/ Tick
  \/ \E th \in Threads, c \in Credentials, p \in Passwords : LoginCheck(th, c[1], p)
  \/ \E th \in Threads : LoginAuthenticate(th)
  \/ \E th \in Threads : LoginRecord(th)

SpecLoginThreads == Init /\ [][NextLoginThreads]_vars

\* ---------------------------------------------------------------------------
\* A second server process: its own EnhancedTokenManager (blacklisted_tokens
\* and active_sessions of its own), the same secret and the same redis.

\* _is_token_blacklisted as the second process runs it.
peer_is_token_blacklisted(t) ==
  IF jwt_decode(t, FALSE) # "ok" THEN FALSE
  ELSE IF t.jti = 0 THEN FALSE
  ELSE IF redis_client /\ redis_up THEN redis_exists(t.jti)
  ELSE t.jti \in peer.blacklisted_tokens

\* verify_token as the second process runs it.
peer_verify_token(t) ==
  IF peer_is_token_blacklisted(t)
  THEN [valid |-> FALSE, expired |-> FALSE, error |-> "Token has been revoked",
        sessions |-> peer.active_sessions]
  ELSE IF jwt_decode(t, TRUE) = "expired"
  THEN [valid |-> FALSE, expired |-> TRUE, error |-> "Token has expired",
        sessions |-> peer.active_sessions]
  ELSE IF jwt_decode(t, TRUE) = "invalid"
  THEN [valid |-> FALSE, expired |-> FALSE, error |-> "Invalid token",
        sessions |-> peer.active_sessions]
  ELSE LET s == is_session_active(peer.active_sessions, t.session_id) IN
       IF ~s.active
       THEN [valid |-> FALSE, expired |-> FALSE, error |-> "Session has expired",
             sessions |-> s.sessions]
       ELSE [valid |-> TRUE, expired |-> FALSE, error |-> "",
             sessions |-> s.sessions]

\* POST /auth/test-token served by the second process.
PeerTestToken ==
  LET at == generate_access_token(peer.active_sessions, test_user.id, test_user,
                                  FreshSessionId, FreshJti(1))
  IN
  /\ Cardinality(issued) + 1 <= MaxTokens
  /\ peer' = [peer EXCEPT !.active_sessions = at.sessions]
  /\ issued' = issued \cup {at.token}
  /\ result' = Result("peer-test-token", "success", 200)
  /\ UNCHANGED <<locks, threads, redis_events, audit_log, now, app, redis_client,
                 redis_up, blacklisted_tokens, active_sessions, redis_blacklist,
                 rlvars, users, email_index>>

\* POST /auth/verify-token served by the second process.
PeerVerifyToken(t) ==
  LET r == peer_verify_token(t) IN
  /\ peer' = [peer EXCEPT !.active_sessions = r.sessions]
  /\ result' = Result("peer-verify", IF r.valid THEN "valid" ELSE r.error,
                      IF ~r.valid THEN 401 ELSE IF t.role = NoRole THEN 500 ELSE 200)
  /\ UNCHANGED <<locks, threads, redis_events, audit_log, now, app, redis_client,
                 redis_up, tokvars, rlvars, users, email_index>>

\* POST /auth/logout served by the second process.
PeerLogout(t) ==
  LET r == peer_verify_token(t)
      ok == r.valid /\ jwt_decode(t, FALSE) = "ok" /\ t.jti # 0
  IN
  /\ peer' = [peer EXCEPT
                !.active_sessions = r.sessions,
                !.blacklisted_tokens = IF ok THEN @ \cup {t.jti} ELSE @]
  /\ redis_blacklist' = IF r.valid THEN blacklist_token(t).redis ELSE redis_blacklist
  /\ result' = IF r.valid THEN Result("peer-logout", "Logout successful", 200)
               ELSE Result("peer-logout", "Invalid token", 401)
  /\ UNCHANGED <<locks, threads, redis_events, audit_log, now, app, redis_client,
                 redis_up, blacklisted_tokens, active_sessions, issued, rlvars,
                 users, email_index>>

\* Two processes behind one load balancer, sharing redis.
NextPeers ==
  \/ Tick
  \/ RedisDown
  \/ RedisUp
  \/ TestToken(token_expiry) /\ Cardinality(issued') <= MaxPeerTokens
  \/ PeerTestToken /\ Cardinality(issued') <= MaxPeerTokens
  \/ \E t \in Presentable : VerifyToken(t)
  \/ \E t \in Presentable : PeerVerifyToken(t)
  \/ \E t \in Presentable : Logout(t)
  \/ \E t \in Presentable : PeerLogout(t)

SpecPeers == Init /\ [][NextPeers]_vars

\* Login and refresh for the demo account while an administrator
\* deactivates, reactivates or deletes it.
NextDeactivate ==
  \/ Tick
  \/ \E c \in Credentials, p \in Passwords : Login(c[1], p)
  \/ \E t \in Presentable : RefreshToken(t)
  \/ \E flag \in BOOLEAN : UpdateUser("u2", flag)
  \/ DeleteUser("u2")

SpecDeactivate == Init /\ [][NextDeactivate]_vars

\* The auditor on its own, while the cache goes down and comes back.
NextAudit ==
  \/ Tick
  \/ RedisDown
  \/ RedisUp
  \/ \E e \in EventTypes : LogSecurityEvent(e)

SpecAudit == Init /\ [][NextAudit]_vars

\* SecurityManager.authenticate_user on its own, same cache assumption.
NextAuth ==
  \/ Tick
  \/ \E e \in Emails \ {"nobody@example.com"}, p \in Passwords, ip \in Addresses :
       AuthenticateUser(e, p, ip)

SpecAuth == Init /\ [][NextAuth]_vars


(***************************************************************************)
(* Claims about the token manager, checked under Spec.                     *)
(***************************************************************************)

\* The session a token names exists and was active within the timeout.
SessionLive(t) ==
  /\ t.session_id \in DOMAIN active_sessions
  /\ now - active_sessions[t.session_id].last_activity <= session_timeout

\* C1: whenever verify_token(t) answers valid=true, at that moment t's
\* signature verifies, now < t.exp, t.jti is not in the blacklist and
\* t.session_id names a session active within session_timeout.
C1_ValidOnlyIfAllFourHold ==
  [][\A t \in Presentable :
       (VerifyToken(t) /\ result'.outcome = "valid")
         => /\ t.sig
            /\ now < t.exp
            /\ t.jti \notin blacklisted_tokens
            /\ SessionLive(t)]_vars

\* C2: a correctly signed token whose expiry has passed is always answered
\* with the expired outcome, blacklisted or not, session or no session
\* (expiry is checked before the blacklist and the session).
C2_ExpiredReportedFirst ==
  [][\A t \in Presentable :
       (VerifyToken(t) /\ t.sig /\ t.exp < now)
         => result'.outcome = "Token has expired"]_vars

\* C3: once blacklist_token(t) has returned True (t.jti entered
\* blacklisted_tokens, which never shrinks), every verify of t before
\* t.exp answers with the revoked outcome.
C3_RevokedStaysRevoked ==
  [][\A t \in Presentable :
       (VerifyToken(t) /\ t.sig /\ t.jti \in blacklisted_tokens /\ now < t.exp)
         => result'.outcome = "Token has been revoked"]_vars

\* C4: after a successful revoke of t the session t.session_id is gone
\* from active_sessions.
C4_RevokeRemovesSession ==
  [][\A t \in Presentable :
       (BlacklistToken(t) /\ result'.outcome = "True")
         => t.session_id \notin DOMAIN active_sessions']_vars

\* C5: a require_auth-protected handler is never run with a refresh token
\* as the bearer credential.
C5_RefreshNeverAuthorizes ==
  [][\A t \in Presentable :
       (Protected(t) /\ t.type = "refresh")
         => result'.outcome # "handler_invoked"]_vars


\* C6: the refresh route issues a token only when verify_token accepts the
\* presented token and its type is refresh; a valid access token is
\* answered "Invalid token type" and nothing is issued.
C6_RefreshNeedsValidRefreshToken ==
  [][\A t \in Presentable :
       RefreshToken(t)
         => /\ (issued' # issued \/ result'.status = 200)
                 => (verify_token(t).valid /\ t.type = "refresh")
            /\ (verify_token(t).valid /\ t.type = "access")
                 => (result'.outcome = "Invalid token type" /\ issued' = issued)]_vars

\* A refresh was just attempted with a valid access token and refused.
W6_AccessTokenRefused ==
  result.op = "refresh" /\ result.outcome = "Invalid token type"

\* C7: a successful refresh(r) issues exactly one token, an access token
\* whose session_id is r's, and the set of session ids is the same before
\* and after the call.
C7_RefreshKeepsSession ==
  [][\A t \in Presentable :
       (RefreshToken(t) /\ result'.status = 200)
         => /\ \E a \in issued' \ issued :
                 /\ issued' = issued \cup {a}
                 /\ a.type = "access"
                 /\ a.session_id = t.session_id
            /\ DOMAIN active_sessions' = DOMAIN active_sessions]_vars

\* A refresh has just succeeded.
W7_RefreshSucceeded ==
  /\ result.op = "refresh" /\ result.status = 200
  /\ \E a \in issued : a.type = "access" /\ a.iat = now /\ a.jti = Cardinality(issued)

\* C8: at most one access token bound to a session verifies as valid (a
\* newly issued access token makes the previous one of that session stop
\* verifying).
C8_OneAccessTokenPerSession ==
  \A a, b \in issued :
    (/\ a.type = "access" /\ b.type = "access"
     /\ a.session_id = b.session_id
     /\ verify_token(a).valid /\ verify_token(b).valid)
      => a = b

\* C9: session liveness is decided inside verify.  A verify that gets as far
\* as the session check and finds now - last_activity > session_timeout
\* answers "Session has expired" and leaves the session absent; a verify that
\* succeeds leaves last_activity = now; a verify that fails on signature,
\* expiry or blacklist leaves the session map as it was.
C9_LazySessionLiveness ==
  [][\A t \in Presentable :
       VerifyToken(t)
         => /\ (/\ t.sig /\ now < t.exp /\ ~is_token_blacklisted(t)
                /\ t.session_id \in DOMAIN active_sessions
                /\ now - active_sessions[t.session_id].last_activity > session_timeout)
                 => (/\ result'.outcome = "Session has expired"
                     /\ t.session_id \notin DOMAIN active_sessions')
            /\ result'.outcome = "valid"
                 => (/\ t.session_id \in DOMAIN active_sessions'
                     /\ active_sessions'[t.session_id].last_activity = now
                     /\ \A s \in DOMAIN active_sessions \ {t.session_id} :
                          s \in DOMAIN active_sessions' /\ active_sessions'[s] = active_sessions[s])
            /\ result'.outcome \in {"Invalid token", "Token has expired",
                                    "Token has been revoked"}
                 => active_sessions' = active_sessions]_vars

\* A verify has just found the only session timed out and removed it.
W9_SessionTimedOutAtVerify ==
  /\ result.op = "verify" /\ result.outcome = "Session has expired"
  /\ issued # {}
  /\ DOMAIN active_sessions = {}

(***************************************************************************)
(* Claims about the rate limiter, checked under SpecRL.                    *)
(***************************************************************************)

\* Timestamps of a list that lie inside the window ending now.
CountInWindow(ts) ==
  Cardinality({i \in 1..Len(ts) : now - ts[i] < lockout_duration})

\* The bucket of a key in the backend the limiter reads: the redis list
\* when a client is attached and answers, else the in-memory list.
Bucket(mem, red, key) ==
  IF redis_client /\ redis_up
  THEN IF key \in DOMAIN red THEN red[key].ts ELSE <<>>
  ELSE IF key \in DOMAIN mem THEN mem[key] ELSE <<>>

\* C10: is_rate_limited(identity, address) answers limited exactly when
\* the identity bucket holds at least max_login_attempts timestamps inside
\* the window or the address bucket holds at least 3 * max_login_attempts;
\* each bucket is counted on its own.
C10_LimitedIffEitherBucketSaturated ==
  [][\A id \in Identifiers, ip \in Addresses :
       IsRateLimited(id, ip)
         => (result'.outcome # "not_limited"
               <=> \/ CountInWindow(Bucket(attempts, redis_user_attempts, id))
                        >= max_login_attempts
                   \/ /\ ip # NoAddress
                      /\ CountInWindow(Bucket(ip_attempts, redis_ip_attempts, ip))
                           >= 3 * max_login_attempts)]_vars

\* A check has just been refused on the address bucket alone.
W10_LimitedByAddressOnly ==
  result.op = "is_rate_limited" /\ result.outcome = "ip_limit"


\* C11: record(identity, address, success=true) leaves the identity's
\* bucket empty, the address bucket exactly as it was, and every other
\* identity's bucket as it was, with either backend.
C11_SuccessClearsIdentityOnly ==
  [][\A id \in Identifiers2, ip \in Addresses :
       RecordAttempt(id, ip, TRUE)
         => /\ Bucket(attempts', redis_user_attempts', id) = <<>>
            /\ ip # NoAddress
                 => Bucket(ip_attempts', redis_ip_attempts', ip)
                      = Bucket(ip_attempts, redis_ip_attempts, ip)
            /\ \A other \in Identifiers2 \ {id} :
                 Bucket(attempts', redis_user_attempts', other)
                   = Bucket(attempts, redis_user_attempts, other)]_vars

\* A success was just recorded for one identity while the address bucket
\* and the other identity's bucket hold failures.
W11_SuccessWithOtherFailuresKept ==
  /\ result.op = "record_attempt" /\ result.outcome = "success"
  /\ \E id \in Identifiers2 :
       /\ Bucket(attempts, redis_user_attempts, id) = <<>>
       /\ \A other \in Identifiers2 \ {id} :
            Len(Bucket(attempts, redis_user_attempts, other)) >= 1
  /\ Len(Bucket(ip_attempts, redis_ip_attempts, "1.2.3.4")) >= 2


(***************************************************************************)
(* Claims about the login surface, checked under SpecLogin and SpecAuth.   *)
(***************************************************************************)

\* C12: with max_login_attempts = N, a login that does not authenticate is
\* answered 401 Invalid credentials and adds one failure while fewer than N
\* failures of that identity lie inside the window, and is answered 429 once
\* N lie inside it; the bucket never holds more than N inside the window.
\* From an empty bucket this is N answers 401, then 429 on attempt N + 1.
C12_NFailuresThenLimited ==
  [][\A e \in Emails, p \in Passwords :
       (Login(e, p) /\ authenticate_user(e, p) = {})
         => LET c == CountInWindow(Bucket(attempts, redis_user_attempts, e)) IN
            /\ c <= max_login_attempts
            /\ c < max_login_attempts
                 => /\ result'.status = 401
                    /\ result'.outcome = "Invalid credentials"
                    /\ CountInWindow(Bucket(attempts', redis_user_attempts', e)) = c + 1
            /\ c = max_login_attempts
                 => /\ result'.status = 429
                    /\ Bucket(attempts', redis_user_attempts', e)
                         = Bucket(attempts, redis_user_attempts, e)]_vars

\* Attempt N + 1 with a wrong password for the registered, active demo
\* account has just been answered 429, N failures being inside the window.
W12_AttemptAfterNRefused ==
  /\ result.op = "login" /\ result.status = 429
  /\ "u2" \in DOMAIN users /\ users["u2"].is_active
  /\ CountInWindow(Bucket(attempts, redis_user_attempts, "Demo@Jobtract.com"))
       = max_login_attempts


(***************************************************************************)
(* Further claims about the rate limiter, checked under SpecRL.            *)
(***************************************************************************)

\* Timestamps of a list that would lie inside the window ending at time t.
CountInWindowAt(ts, t) ==
  Cardinality({i \in 1..Len(ts) : t - ts[i] < lockout_duration})

\* The oldest timestamp of a list that lies inside the window ending now.
OldestInWindow(ts) ==
  SeqMin(InWindow(ts, now))

\* C13: a check of an identity whose bucket holds at least
\* max_login_attempts timestamps inside the window answers limited, the
\* reset_time it reports is oldest + lockout_duration, and with no further
\* failure a check made at that instant would no longer be limited.
C13_BlockEndsWhenOldestAgesOut ==
  [][\A id \in Identifiers :
       LET b == Bucket(attempts, redis_user_attempts, id)
           r == is_rate_limited(id, NoAddress)
       IN  (IsRateLimited(id, NoAddress) /\ CountInWindow(b) >= max_login_attempts)
             => /\ result'.outcome = "user_limit"
                /\ r.reset_time = OldestInWindow(b) + lockout_duration
                /\ CountInWindowAt(b, r.reset_time) < max_login_attempts]_vars


\* C14: record(success=false) trims on write: right after a failure is
\* recorded, the identity bucket and the address bucket it was recorded in
\* hold only timestamps younger than lockout_duration.
C14_RecordTrimsOnWrite ==
  [][\A id \in Identifiers, ip \in Addresses :
       RecordAttempt(id, ip, FALSE)
         => LET b == Bucket(attempts', redis_user_attempts', id)
                a == Bucket(ip_attempts', redis_ip_attempts', ip)
            IN  /\ CountInWindow(b) = Len(b)
                /\ ip # NoAddress => CountInWindow(a) = Len(a)]_vars


(***************************************************************************)
(* Further claims about the login surface.                                 *)
(***************************************************************************)

\* C15: a login made while the identity is limited is answered with the
\* rate-limited outcome and a retry time, appends a login_blocked audit
\* event, answers the same whatever the password (no credential is
\* consulted), issues nothing and adds no timestamp to any bucket.
C15_LimitedLoginRejectedFirst ==
  [][\A e \in Emails, p \in Passwords :
       (Login(e, p) /\ is_rate_limited(e, NoAddress).limited)
         => /\ result'.status = 429
            /\ is_rate_limited(e, NoAddress).reset_time > now
            /\ audit_log' = log_security_event(audit_log, "login_blocked")
            /\ issued' = issued /\ users' = users
            /\ redis_user_attempts' = redis_user_attempts
            /\ redis_ip_attempts' = redis_ip_attempts
            /\ ip_attempts' = ip_attempts
            /\ \A k \in DOMAIN attempts' :
                 k \in DOMAIN attempts /\ Len(attempts'[k]) <= Len(attempts[k])]_vars


\* The password does not match the stored credential of the registered,
\* active account that the typed address names.
WrongPasswordForActiveUser(e, p) ==
  /\ get_user_by_email(e) # {}
  /\ \A u \in get_user_by_email(e) :
       users[u].is_active /\ ~verify_password(users[u], p)

\* C16: SecurityManager.authenticate_user called, while not limited, with a
\* password that does not match the stored credential of a registered,
\* active email does not report success: it answers invalid credentials,
\* records one failure for the identity and appends a login_failed event.
C16_WrongPasswordNeverSucceeds ==
  [][\A e \in Emails, p \in Passwords, ip \in Addresses :
       (/\ AuthenticateUser(e, p, ip)
        /\ WrongPasswordForActiveUser(e, p)
        /\ ~is_rate_limited(e, ip).limited)
         => /\ result'.outcome # "success"
            /\ CountInWindow(Bucket(attempts', redis_user_attempts', e))
                 = CountInWindow(Bucket(attempts, redis_user_attempts, e)) + 1
            /\ audit_log' = log_security_event(audit_log, "login_failed")]_vars


\* C17: a successful login issues exactly one access and one refresh token,
\* both bound to one session id that no session and no earlier token uses,
\* leaves the identity's bucket empty and appends a login_success event.
C17_SuccessfulLoginEffects ==
  [][\A e \in Emails, p \in Passwords :
       (Login(e, p) /\ result'.status = 200)
         => /\ \E a, r \in issued' \ issued :
                 /\ issued' = issued \cup {a, r}
                 /\ a.type = "access" /\ r.type = "refresh"
                 /\ a.session_id = r.session_id
                 /\ a.session_id \notin DOMAIN active_sessions
                 /\ \A t \in issued : t.session_id # a.session_id
                 /\ a.session_id \in DOMAIN active_sessions'
            /\ Bucket(attempts', redis_user_attempts', e) = <<>>
            /\ audit_log' = log_security_event(audit_log, "login_success")]_vars


C19_RevokeAcceptsExpiredTokens ==
  [][\A t \in Presentable :
       BlacklistToken(t)
         => /\ (t.sig /\ t.exp <= now)
                 => (result'.outcome = "True" /\ t.jti \in blacklisted_tokens')
            /\ ~t.sig
                 => (/\ result'.outcome = "False"
                     /\ UNCHANGED <<blacklisted_tokens, redis_blacklist,
                                    active_sessions>>)]_vars

\* A revoke has just succeeded and the only blacklisted jti is that of a
\* token whose expiry has passed.
W19_ExpiredTokenRevoked ==
  /\ result.op = "revoke" /\ result.outcome = "True"
  /\ \E t \in issued : t.exp <= now /\ blacklisted_tokens = {t.jti}

\* C20: every jti held in the blacklist belongs to a token whose expiry has
\* not yet passed.
C20_BlacklistPrunedAtExpiry ==
  \A t \in issued : t.jti \in blacklisted_tokens => now < t.exp


\* C21: logging out twice is harmless.  Right after POST /auth/logout has
\* answered 200 for a token, a second POST /auth/logout with the same token
\* is answered 401 by require_auth (the token is already revoked) and leaves
\* the session map as the first call left it; blacklist_token is not reached,
\* so both blacklists stay as they are.  Right after blacklist_token itself
\* (the body of SecurityManager.logout_user) has returned True for a token,
\* a second call returns True again and leaves the in-process set, the redis
\* keys and the session map as the first call left them.
C21_LogoutIdempotent ==
  [][\A t \in Presentable :
       /\ (Logout(t) /\ result'.status = 200) =>
            (/\ ~verify_token(t).valid
             /\ verify_token(t).error = "Token has been revoked"
             /\ verify_token(t).sessions = active_sessions)'
       /\ (BlacklistToken(t) /\ result'.outcome = "True") =>
            (/\ blacklist_token(t).ok
             /\ blacklist_token(t).blacklisted = blacklisted_tokens
             /\ blacklist_token(t).redis = redis_blacklist)'
    ]_vars

\* A logout has been accepted, the token is in the in-process blacklist and
\* the shared cache is unreachable.
W21_LoggedOut ==
  /\ result.op = "logout" /\ result.status = 200
  /\ blacklisted_tokens # {}
  /\ redis_client /\ ~redis_up

\* C22: an access token verifies right after it was issued.  When POST
\* /auth/login or POST /auth/refresh has answered 200, the access token it
\* returned has type access, carries the id of the user it was issued for and
\* the session id it was issued under, and verify_token, called in the state
\* the issuing call left, answers valid.
C22_IssuedAccessTokenVerifies ==
  [][/\ \A c \in Credentials :
          (Login(c[1], c[2]) /\ result'.status = 200) =>
            \E a \in issued' \ issued :
              /\ a.type = "access"
              /\ a.user_id \in authenticate_user(c[1], c[2])
              /\ a.session_id = FreshSessionId
              /\ (verify_token(a).valid)'
     /\ \A t \in Presentable :
          (RefreshToken(t) /\ result'.status = 200) =>
            \E a \in issued' \ issued :
              /\ a.type = "access"
              /\ a.user_id = t.user_id
              /\ a.session_id = t.session_id
              /\ (verify_token(a).valid)'
    ]_vars

\* Both issuing routes have answered 200: a refresh has produced a second
\* access token.
W22_IssuedByLoginAndRefresh ==
  /\ result.op = "refresh" /\ result.status = 200
  /\ Cardinality({t \in issued : t.type = "access"}) = 2

\* C23: an access token issued with a lifetime of zero (exp = iat) and
\* presented to POST /auth/verify-token in the instant of its issue is
\* answered 401 "Token has expired".
C23_ZeroLifetimeTokenIsExpired ==
  [][\A t \in issued :
       (VerifyToken(t) /\ t.type = "access" /\ t.exp = t.iat /\ now = t.iat) =>
         /\ verify_token(t).expired
         /\ result'.outcome = "Token has expired"
         /\ result'.status = 401
    ]_vars

\* A zero-lifetime token was verified in the instant of its issue: at time 0
\* only such a token can have expired.
W23_ZeroLifetimeVerified ==
  /\ now = 0
  /\ result.op = "verify" /\ result.outcome = "Token has expired"
  /\ \E t \in issued : t.exp = t.iat

\* C24: every issued token carries a role claim (besides the claims both
\* generators write), and POST /auth/verify-token only ever answers 200 or 401.
C24_TokensCompleteVerifyTotal ==
  /\ \A t \in issued : t.role # NoRole
  /\ result.op = "verify" => result.status \in {200, 401}

\* The limiter's answer from the in-memory dicts alone.
MemLimited(identifier, ip_address) ==
  \/ /\ identifier \in DOMAIN attempts
     /\ CountInWindow(attempts[identifier]) >= max_login_attempts
  \/ /\ ip_address # NoAddress
     /\ ip_address \in DOMAIN ip_attempts
     /\ CountInWindow(ip_attempts[ip_address]) >= 3 * max_login_attempts

\* The in-memory list of a key after one more attempt was recorded in memory.
MemRecorded(mem, key, success) ==
  IF success THEN <<>> ELSE Append(IF key \in DOMAIN mem THEN mem[key] ELSE <<>>, now)

\* C25: a shared cache that is absent or does not answer never shows in a
\* result.  In every state where no cache is configured or the cache is down,
\* is_rate_limited answers one of its three typed outcomes and says limited
\* exactly when the in-memory buckets say so; record_attempt writes the
\* in-memory buckets and returns; verify_token answers one of its five typed
\* outcomes and says revoked exactly for a correctly signed token whose id is
\* in the in-memory blacklist; blacklist_token returns True exactly for a
\* correctly signed token and has then put its id in the in-memory blacklist.
\* The cache contents are not changed by any of them.
C25_CacheFailuresNeverSurface ==
  [][~(redis_client /\ redis_up) =>
       /\ \A id \in Identifiers, ip \in Addresses :
            IsRateLimited(id, ip) =>
              /\ result'.outcome \in {"not_limited", "user_limit", "ip_limit"}
              /\ (result'.outcome # "not_limited") <=> MemLimited(id, ip)
       /\ \A id \in Identifiers, ip \in Addresses, ok \in BOOLEAN :
            RecordAttempt(id, ip, ok) =>
              /\ result'.op = "record_attempt"
              /\ attempts'[id] = MemRecorded(attempts, id, ok)
              /\ (ip # NoAddress /\ ~ok) =>
                   ip_attempts'[ip] = MemRecorded(ip_attempts, ip, FALSE)
              /\ UNCHANGED <<redis_user_attempts, redis_ip_attempts>>
       /\ \A t \in Presentable :
            VerifyToken(t) =>
              /\ result'.outcome \in {"valid", "Token has been revoked",
                                      "Token has expired", "Invalid token",
                                      "Session has expired"}
              /\ (result'.outcome = "Token has been revoked")
                   <=> (t.sig /\ t.jti \in blacklisted_tokens)
       /\ \A t \in Presentable :
            BlacklistToken(t) =>
              /\ (result'.outcome = "True") <=> t.sig
              /\ result'.outcome \in {"True", "False"}
              /\ t.sig => t.jti \in blacklisted_tokens'
              /\ UNCHANGED redis_blacklist
    ]_vars

\* The cache is down after a revoke had been stored in it: a revoked token
\* has just been refused, and an attempt has been recorded in memory.
W25_ServedDuringOutage ==
  /\ redis_client /\ ~redis_up
  /\ result.op = "verify" /\ result.outcome = "Token has been revoked"
  /\ redis_blacklist # EmptyMap
  /\ \E id \in DOMAIN attempts : attempts[id] # <<>>

\* C26: log_security_event always returns, whatever the cache does.  With
\* no cache configured, with a cache that answers and with one that raises,
\* the call returns normally and the event is the newest entry of the
\* in-process log afterwards; a cache that is absent or raises is left as it
\* was.
C26_AuditNeverRaises ==
  [][\A e \in EventTypes :
       LogSecurityEvent(e) =>
         /\ result'.outcome = "returned"
         /\ audit_log' # <<>>
         /\ audit_log'[Len(audit_log')] = e
         /\ ~(redis_client /\ redis_up) => UNCHANGED redis_events
    ]_vars

\* An event was logged while the configured cache did not answer: the
\* in-process log has it, the cache has nothing.
W26_LoggedDuringOutage ==
  /\ result.op = "log_security_event"
  /\ redis_client /\ ~redis_up
  /\ audit_log # <<>>
  /\ redis_events = <<>>

\* C27: the in-process audit log is append-only and capped.  It never holds
\* more than audit_log_cap events; a log call leaves exactly the newest
\* audit_log_cap entries of the old log followed by the new event, in the
\* order they were logged (so only the oldest are dropped and every kept
\* entry is as it was stored); no other step changes the log.
C27_AuditLogAppendOnlyCapped ==
  [][/\ Len(audit_log') <= audit_log_cap
     /\ \A e \in EventTypes :
          LogSecurityEvent(e) =>
            LET l == Append(audit_log, e)
                n == Len(audit_log')
            IN  /\ n = IF Len(l) > audit_log_cap THEN audit_log_cap ELSE Len(l)
                /\ \A i \in 1..n : audit_log'[i] = l[Len(l) - n + i]
     /\ (~ \E e \in EventTypes : LogSecurityEvent(e)) => UNCHANGED audit_log
    ]_vars

\* More events than the cap were logged (the cache list, which is longer,
\* has them all) and the in-process log is full: the oldest was evicted.
W27_OldestEvicted ==
  /\ result.op = "log_security_event"
  /\ Len(audit_log) = audit_log_cap
  /\ Len(redis_events) > audit_log_cap
  /\ redis_events[Len(redis_events)] # audit_log[1]

\* The locks a thread owns.
Holds(th) == {k \in Components : locks[k] = th}

\* C28: lock discipline.  A thread that is inside a with-block owns the lock
\* of the component the block belongs to, and every change of a component's
\* in-process state (blacklist set, session map; the two bucket maps; the
\* event log) is made by a thread inside such a block; a thread owns no lock
\* but the one of the block it is inside, so it never waits for a lock while
\* owning one; and a thread inside verify_token can take its next step
\* whenever the token manager's lock is free or its own, whoever owns the
\* rate limiter's lock.
C28_OwnLockOnly ==
  [][/\ \A th \in Threads :
          LET c == threads[th] IN
          /\ c.at \in {"body", "leave"} => locks[Component(c.op, c.blk)] = th
          /\ Holds(th) \subseteq (IF c.at \in {"body", "leave"}
                                  THEN {Component(c.op, c.blk)} ELSE {})
          /\ (c.op = "verify_token" /\ locks["token_manager"] \in {NoThread, th})
               => ENABLED (Skip(th) \/ Enter(th) \/ Body(th) \/ Leave(th))
     /\ (blacklisted_tokens' # blacklisted_tokens \/ active_sessions' # active_sessions)
          => \E th \in Threads : Body(th) /\ locks["token_manager"] = th
     /\ (attempts' # attempts \/ ip_attempts' # ip_attempts)
          => \E th \in Threads : Body(th) /\ locks["rate_limiter"] = th
     /\ audit_log' # audit_log
          => \E th \in Threads : Body(th) /\ locks["auditor"] = th
    ]_vars

\* One thread is inside a limiter block, owning the limiter's lock, while the
\* other has entered the session check of verify_token.
W28_VerifyWhileLimiterLocked ==
  \E a, b \in Threads :
    /\ locks["rate_limiter"] = a
    /\ threads[a].op = "record_attempt" /\ threads[a].at = "body"
    /\ threads[b].op = "verify_token" /\ threads[b].blk = 2 /\ threads[b].at = "body"
    /\ locks["token_manager"] = b

\* C29: stored addresses are unique up to case and surrounding whitespace.
\* In every state reached by create_user, update_user and delete_user calls,
\* every stored address is in normal form and no two users share one, and the
\* index maps exactly the stored addresses, each to the id of its user; a
\* create_user whose normalised address is already stored raises ValueError
\* and changes neither the store nor the index.
C29_EmailsUnique ==
  [][/\ \A u, v \in DOMAIN users :
          /\ users[u].email = normalize_email(users[u].email)
          /\ users[u].email = users[v].email => u = v
     /\ DOMAIN email_index = {users[u].email : u \in DOMAIN users}
     /\ \A u \in DOMAIN users : email_index[users[u].email] = u
     /\ \A e \in NewEmails, p \in Passwords :
          (CreateUser(e, p)
             /\ \E u \in DOMAIN users : users[u].email = normalize_email(e))
          => /\ result'.outcome = "ValueError"
             /\ UNCHANGED <<users, email_index>>
    ]_vars

\* A registration was refused for the address of a user created earlier
\* (stored in lower case, asked for in either spelling), after the demo
\* account had been deleted.
W29_DuplicateRefused ==
  /\ result.op = "create_user" /\ result.outcome = "ValueError"
  /\ "u3" \in DOMAIN users /\ users["u3"].email = "new@example.com"
  /\ "u2" \notin DOMAIN users

\* C30: no live session without its user.  In every state, the user a live
\* session (one whose last activity is within session_timeout) names is in
\* the user store.
C30_NoDeleteWhileSessionLive ==
  \A k \in DOMAIN active_sessions :
    now - active_sessions[k].last_activity <= session_timeout
      => active_sessions[k].user_id \in DOMAIN users

\* C31: password hashing round-trips.  After set_password(P), verifying P
\* answers true and verifying any other password answers false.
C31_HashRoundTrip ==
  [][\A P \in TypedPasswords :
       SetPassword("u2", P) =>
         \A Q \in TypedPasswords :
           ((user_verify_password(users["u2"], Q) = "True") <=> (Q = P))'
    ]_vars

\* Stored credentials that are not a proper hash with a proper salt.
Malformed(user) ==
  user.password_hash.kind # "hex" \/ user.password_salt \in {NoneSalt, "", "not-hex"}

\* C32: verification against a malformed or missing stored hash or salt
\* answers false, for every password, through User.verify_password and
\* through EnhancedHasher.verify_password.
C32_MalformedStoredIsFalse ==
  [][/\ \A u \in UserIds, p \in TypedPasswords :
          (VerifyPassword(u, p) /\ Malformed(users[u])) => result'.outcome = "False"
     /\ \A p \in TypedPasswords, h \in StoredHashes, sl \in StoredSalts :
          (HasherVerifyPassword(p, h, sl)
             /\ Malformed([password_hash |-> h, password_salt |-> sl]))
          => result'.outcome = "False"
    ]_vars

\* C33: validate_and_sanitize is all-or-nothing.  valid is true exactly when
\* every schema field passes all of its rules; the errors list has an entry for
\* every failing field; and when valid is false the result carries no
\* sanitized field at all.
FieldPasses(value, rules) ==
  LET empty == value = NoneValue \/ value.raw = "" IN
  IF empty THEN ~rules.required
  ELSE /\ value.len >= rules.min_length
       /\ value.len <= rules.max_length
       /\ (rules.pattern # NoPattern => value.email)
       /\ ~value.sql

C34_SecretRequiredInProduction ==
  (app.FLASK_ENV = "production" /\ app.SECRET_KEY = NoSecret)
    => /\ app.secret_key = NotStarted
       /\ app.tokens = {}
       /\ result.op \notin {"generate_token", "app_verify_token"}

\* C35: session end is terminal.  Once a session of an issued token has timed
\* out (its entry is older than the timeout, or already removed) or been
\* revoked (a token bound to it was blacklisted), no token bound to that
\* session id verifies as valid after any later step.
SessionTimedOut(s) ==
  \/ s \notin DOMAIN active_sessions
  \/ now - active_sessions[s].last_activity > session_timeout

SessionRevoked(s) ==
  \E t \in issued :
    t.session_id = s /\ (t.jti \in blacklisted_tokens \/ t.jti \in DOMAIN redis_blacklist)

C35_SessionEndTerminal ==
  [][\A s \in {t.session_id : t \in issued} :
       (SessionTimedOut(s) \/ SessionRevoked(s)) =>
         \A t \in issued' : t.session_id = s => ~(verify_token(t).valid)'
    ]_vars

\* C35, the time-out half alone: a timed-out session stays dead.
C35_TimedOutStaysDead ==
  [][\A s \in {t.session_id : t \in issued} :
       SessionTimedOut(s) =>
         \A t \in issued' : t.session_id = s => ~(verify_token(t).valid)'
    ]_vars

\* C36: for each identity, the wrong-password attempts that reached the
\* password check inside the current window (those recorded, and those checked
\* but not yet recorded) never number more than max_login_attempts.
RecordedInWindow(identifier) ==
  Len(InWindow(IF redis_client /\ redis_up
               THEN redis_lrange(redis_user_attempts, identifier)
               ELSE IF identifier \in DOMAIN attempts THEN attempts[identifier]
               ELSE <<>>, now))

WrongChecked(identifier) ==
  Cardinality({th \in Threads :
                 /\ threads[th].op = "login"
                 /\ threads[th].at = "record"
                 /\ threads[th].arg = identifier
                 /\ threads[th].ret = "None"})

C36_CheckAndRecordAtomic ==
  \A c \in Credentials :
    RecordedInWindow(c[1]) + WrongChecked(c[1]) <= max_login_attempts

\* C37: with a shared cache configured, a token whose revoke returned success
\* (its id is in blacklisted_tokens, which never shrinks) is not verified as
\* valid afterwards, whether the cache was reachable at the revoke, is
\* reachable at the verify, both or neither.
C37_RevokeSurvivesOutage ==
  [][\A t \in Presentable :
       (redis_client /\ t.sig /\ t.jti \in blacklisted_tokens /\ VerifyToken(t))
         => result'.outcome # "valid"]_vars

\* C38: the limiter's answer does not depend on the backend in reach.  Every
\* failure of an identity recorded inside the window, in whichever store it
\* was written, counts in the next is_rate_limited check; and an identity the
\* limiter reports as limited is still reported limited right after the cache
\* goes down or comes back.
RecordedAnywhere(identifier) ==
  CountInWindow(IF identifier \in DOMAIN attempts THEN attempts[identifier] ELSE <<>>)
  + CountInWindow(redis_lrange(redis_user_attempts, identifier))

C38_SameAnswerOnEitherBackend ==
  [][\A id \in Identifiers :
       /\ (IsRateLimited(id, NoAddress) /\ RecordedAnywhere(id) >= max_login_attempts)
            => result'.outcome # "not_limited"
       /\ ((RedisDown \/ RedisUp) /\ is_rate_limited(id, NoAddress).limited)
            => (is_rate_limited(id, NoAddress).limited)'
    ]_vars

\* C39: with a shared cache configured and two processes using one secret, a
\* token that verifies as valid on one process (its session is live there)
\* verifies as valid on the other; and a token whose session has ended on one
\* process (timed out, or a token of it revoked by logout) does not verify as
\* valid on the other.
C39_SessionsSharedAcrossProcesses ==
  [][\A t \in Presentable :
       redis_client =>
         /\ (PeerVerifyToken(t) /\ verify_token(t).valid) => result'.outcome = "valid"
         /\ (VerifyToken(t) /\ peer_verify_token(t).valid) => result'.outcome = "valid"
         /\ (PeerVerifyToken(t) /\ t.jti \in blacklisted_tokens)
              => result'.outcome # "valid"
         /\ (VerifyToken(t) /\ t.jti \in peer.blacklisted_tokens)
              => result'.outcome # "valid"
    ]_vars

\* C39, second half alone: a token revoked by a logout on one process does
\* not verify as valid on the other.
C39_EndedOnOneDeadOnOther ==
  [][\A t \in Presentable :
       redis_client =>
         /\ (PeerVerifyToken(t) /\ t.jti \in blacklisted_tokens)
              => result'.outcome # "valid"
         /\ (VerifyToken(t) /\ t.jti \in peer.blacklisted_tokens)
              => result'.outcome # "valid"
    ]_vars

\* The user is deleted or has is_active = False.
Gone(u) == u \notin DOMAIN users \/ ~users[u].is_active

\* C40 as stated: for a deactivated or deleted user, every login with the
\* correct password answers Invalid credentials, and every refresh with a
\* refresh token of that user that still verifies is rejected, issues nothing
\* and leaves active_sessions as it was.
C40_GoneUserGetsNothing ==
  [][Gone("u2") =>
       /\ \A c \in Credentials :
            Login(c[1], c[2])
              => /\ result'.status = 401
                 /\ result'.outcome = "Invalid credentials"
                 /\ issued' = issued
       /\ \A t \in Presentable :
            (RefreshToken(t) /\ t.user_id = "u2" /\ t.type = "refresh"
               /\ verify_token(t).valid)
              => /\ result'.status = 401
                 /\ issued' = issued
                 /\ active_sessions' = active_sessions
    ]_vars

\* C40 amended: for a deactivated or deleted user, every login with the
\* correct password issues nothing, leaves the sessions alone and answers
\* Invalid credentials, or the rate-limited answer once the identity's bucket
\* is full; every refresh with a refresh token of that user that still
\* verifies answers 401 User not found or inactive and issues nothing, no
\* session is added or removed, and the only change to active_sessions is the
\* last_activity of the token's own session, which verify_token sets to now.
C40_GoneUserGetsNoNewToken ==
  [][Gone("u2") =>
       /\ \A c \in Credentials :
            Login(c[1], c[2])
              => /\ \/ result'.status = 401 /\ result'.outcome = "Invalid credentials"
                    \/ /\ result'.status = 429 /\ result'.outcome = "rate_limited"
                       /\ is_rate_limited(c[1], NoAddress).limited
                 /\ issued' = issued
                 /\ active_sessions' = active_sessions
       /\ \A t \in Presentable :
            (RefreshToken(t) /\ t.user_id = "u2" /\ t.type = "refresh"
               /\ verify_token(t).valid)
              => /\ result' = Result("refresh", "User not found or inactive", 401)
                 /\ issued' = issued
                 /\ active_sessions' =
                      [active_sessions EXCEPT ![t.session_id].last_activity = now]
    ]_vars

\* A refresh with a live refresh token of the deactivated demo user has just
\* been rejected, some time after the login that issued it.
W40_RefreshRejectedForDeactivated ==
  /\ "u2" \in DOMAIN users /\ ~users["u2"].is_active
  /\ result = Result("refresh", "User not found or inactive", 401)
  /\ \E t \in issued :
       /\ t.type = "refresh" /\ t.user_id = "u2"
       /\ t.session_id \in DOMAIN active_sessions
       /\ active_sessions[t.session_id].last_activity = now
       /\ active_sessions[t.session_id].created_at < now
====
